---- MODULE Spec2Model ----
(***************************************************************************)
(* The multiplexed FastCGI client: the dispatcher task (ClientReceiver),   *)
(* the futures a caller drives (RegisterId, Pending, Cleanup), the queues  *)
(* between them and the transport, under a single-threaded cooperative     *)
(* runtime: a poll of a future runs to its return before another starts.   *)
(***************************************************************************)
EXTENDS Integers, Sequences, FiniteSets, TLC

\* ------------------------------------------------------------ bounds
\* Calls of Client::send in one run.
NumReq == 3
\* The slot limit of the dispatcher (u16::MAX - 1 in the source), scaled down.
SlotLimit == 2
\* Config::send_channel_limit: capacity of the command and the record queue.
SendLimit == 2
\* The largest PendingConfig::recv_channel_limit a client is made with (32 by
\* default, the same as yield_at).
RecvLimit == 2
\* PendingConfig::yield_at.
YieldAt == 2
\* ReceiverConfig::yield_sender_after.
YieldSenderAfter == 3
\* Chunks a stream of a request holds at most.
MaxChunks == 1
\* Frames the peer sends in one run.
MaxInbound == 3
\* PendingConfig::max_stream_payload_size, in bytes; a non-empty frame holds one.
MaxStreamPayload == 2
\* Drops by the caller, deadlines passed and transport failures in one run.
MaxFaults == 1
\* Calls of send, frames from the peer and faults in one run, together.
MaxEvents == 4

\* Frames a simplex connection or a parser on its own reads in one run.
MaxFrames == 6
\* Frames of one such run that the parser answers with an error.
MaxParseErrors == 2

\* crate::MANAGEMENT_ID
MANAGEMENT_ID == 0

\* Defrag::with_max_payload_size: the cap the stream specification gives it.
MaxTotalPayload == 200000
\* The streams one Defrag is given, and the records a peer cuts a stream into.
MaxStreams == 2
MaxRecords == 4
\* The records and headers one codec specification encodes.
MaxEncoded == 2
\* The name-value pairs encoded into one buffer.
MaxPairs == 2
\* The most calls of NameValuePairs::encode_chunk on one NameValuePairs.
MaxChunkCalls == 2

Reqs == 1..NumReq
\* The ids the dispatcher can issue: slab keys plus one.
Ids == 1..SlotLimit

VARIABLES
    recv_channel_limit, \* PendingConfig::recv_channel_limit of the client
    clientAlive,     \* some Client handle exists
    st,              \* per call of send: where its future is
    reply,           \* per call: the one-shot id channel (tx_id / id_receiver)
    id,              \* Pending::id
    pstate,          \* Pending::state
    request,         \* Pending::request (PartialRequest)
    rx,              \* Pending::rx, the inbound channel's buffer
    parser,          \* Pending::parser
    waiting,         \* the channels a Pending has a waker registered on
    wake,            \* the Pending's task is scheduled
    expired,         \* Pending::expires_at <= now
    outcome,         \* what Pending::poll returned
    cleanup,         \* the Cleanup task of a resolved Pending
    cmdQ,            \* rx_command
    appQ,            \* rx (application records)
    pending,         \* ClientReceiver::pending, the slab
    aborting,        \* ClientReceiver::aborting
    state,           \* ClientReceiver::state
    pc,              \* where the dispatcher's poll is
    iteration_count, \* the poll's local counter
    dwake,           \* the dispatcher woke itself
    wire,            \* per id: the frames handed to the transport sink, in order
    flushed,         \* per id: how many of them were flushed to the peer
    inbox,           \* what the transport will yield next
    inCount,         \* frames the peer has sent
    srvOpen,         \* ids the peer has a request open for
    lastRecv,        \* the frame the dispatcher routed in its last step
    seen,            \* per request: frames read under its id while registered
    got,             \* per request: which of those were put in its channel
    ended,           \* requests whose EndRequest the dispatcher has read
    faults           \* drops, passed deadlines and transport failures so far

\* A simplex Connection, or a parser of protocol/parser on its own.
VARIABLES
    endpoint,        \* Connection<T, P>: P is Client or Server ("none": no connection)
    variant,         \* "conn": Connection with conn/state.rs; "protocol": protocol/parser
    cstate,          \* the response parser (client::State, response::Parser)
    sstate,          \* the request parser (server::State, request::Parser)
    fed              \* the frames read so far, each with what became of it

muxVars == <<recv_channel_limit, clientAlive, st, reply, id, pstate, request, rx,
             parser, waiting, wake, expired, outcome, cleanup, cmdQ, appQ, pending, aborting, state, pc,
             iteration_count, dwake, wire, flushed, inbox, inCount, srvOpen,
             lastRecv, seen, got, ended, faults>>

connVars == <<endpoint, variant, cstate, sstate, fed>>

\* One sender of streams (a StreamChunker, or a peer that frames its stream as
\* it likes) and the Defrag that takes its records.
VARIABLES
    streams,         \* the streams given so far: their length and who frames them
    chunker,         \* StreamChunker::inner (the peer's bytes left, for a peer)
    records,         \* the records of the streams, in the order they were sent
    taken,           \* how many of them the receiver has read
    defrag,          \* Defrag
    results          \* what the Defrag's calls returned at each end of stream

chunkVars == <<streams, chunker, records, taken, defrag, results>>

\* One FastCgiCodec encoding records, and one decoding the bytes.
VARIABLES
    encoded,         \* the records given to Encoder::encode, and headers a peer wrote
    dst,             \* the bytes written and not yet read by the decoding side
    src,             \* the decoding side's read buffer
    codec,           \* the decoding FastCgiCodec: which one it is, and its DecodeState
    frames           \* what Decoder::decode returned, apart from Ok(None)

codecVars == <<encoded, dst, src, codec, frames>>

\* Name-value pairs encoded into one buffer and decoded from it.
VARIABLES
    nvps,            \* the pairs made so far (Vec<NameValuePair>)
    nvbuf,           \* the buffer they were encoded into, less what was decoded
    decoded,         \* what NameValuePair::decode returned, call after call
    chunks           \* what NameValuePairs::encode_chunk did, call after call

nvpVars == <<nvps, nvbuf, decoded, chunks>>

\* A client and a server on the two ends of one simplex connection; their
\* parsers are cstate and sstate.
VARIABLES
    sentRequest,     \* the Request the client sent
    c2s,             \* the frames written by the client and not yet read
    spayloads,       \* the payloads in the Defrag of the server's parser
    received,        \* Request::recv: the parts it has, and what it returned
    sentResponse,    \* the Response the server sent
    s2c,             \* the frames written by the server and not yet read
    cpayloads,       \* the payloads in the two Defrags of the client's parser
    response         \* Response::recv: its builder, and what it returned

echoVars == <<sentRequest, c2s, spayloads, received, sentResponse, s2c, cpayloads,
              response>>

pureVars == <<chunkVars, codecVars, nvpVars, echoVars>>

vars == <<muxVars, connVars, pureVars>>

reqVars == <<st, reply, id, pstate, request, rx, parser, waiting, wake, expired,
             outcome, cleanup>>
dispVars == <<pending, aborting, state, iteration_count, dwake, lastRecv>>
netVars == <<wire, flushed, inbox, inCount, srvOpen>>
histVars == <<seen, got, ended>>

\* ------------------------------------------------------------ the slab
\* slab::Slab as the source uses it: occupied entries, the free list
\* (most recently freed key first) and the number of entries ever allocated.
EmptySlab == [occ |-> {}, free |-> <<>>, cap |-> 0]

SlabLen(p) == Cardinality(p.occ)

SlabContains(p, key) == \E e \in p.occ : e.key = key

\* Slab::vacant_entry().key()
VacantKey(p) == IF p.free # <<>> THEN Head(p.free) ELSE p.cap

SlabInsert(p, key, r) ==
    [occ |-> p.occ \cup {[key |-> key, req |-> r]},
     free |-> IF p.free # <<>> /\ Head(p.free) = key THEN Tail(p.free) ELSE p.free,
     cap |-> IF key >= p.cap THEN key + 1 ELSE p.cap]

SlabRemove(p, key) ==
    [occ |-> {e \in p.occ : e.key # key},
     free |-> <<key>> \o p.free,
     cap |-> p.cap]

SlabOwner(p, key) == (CHOOSE e \in p.occ : e.key = key).req

\* ------------------------------------------------------------ frames
\* A frame or record: its request id, record type and payload. A stream
\* payload is "" (empty) or "b" (some bytes); an EndRequest payload names the
\* protocol status it decodes to, or is "corrupt" (not a well-formed body).
Frame(i, t, p) == [id |-> i, type |-> t, payload |-> p]

PayloadLen(p) == IF p = "" THEN 0 ELSE 1

\* Transition::parse
TransitionParse(frame) ==
    CASE frame.type = "Stdout" /\ frame.payload # "" ->
            [ok |-> TRUE, t |-> "ParseStdout", payload |-> frame.payload]
      [] frame.type = "Stdout" /\ frame.payload = "" ->
            [ok |-> TRUE, t |-> "EndOfStdout", payload |-> ""]
      [] frame.type = "Stderr" /\ frame.payload # "" ->
            [ok |-> TRUE, t |-> "ParseStderr", payload |-> frame.payload]
      [] frame.type = "Stderr" /\ frame.payload = "" ->
            [ok |-> TRUE, t |-> "EndOfStderr", payload |-> ""]
      [] frame.type = "EndRequest" /\ frame.payload # "" ->
            [ok |-> TRUE, t |-> "ParseEndRequest", payload |-> frame.payload]
      [] frame.type = "EndRequest" /\ frame.payload = "" ->
            [ok |-> FALSE, err |-> "ParseError.DecodeError"]
      [] OTHER -> [ok |-> FALSE, err |-> "ParseError.UnexpectedRecordType"]

\* Parser::new
NewParser ==
    [inner |-> "Std", out |-> "Init", err |-> "Init",
     stdout_total |-> 0, stderr_total |-> 0]

\* Defrag::insert_payload: the new total, or -1 for MaximumStreamSizeExceeded.
InsertPayload(total, payload) ==
    IF MaxStreamPayload < total + PayloadLen(payload) THEN -1
    ELSE total + PayloadLen(payload)

\* EndRequest::decode
EndRequestDecodes(payload) == payload # "corrupt"

ParseOk(p, part) == [ok |-> TRUE, parser |-> p, part |-> part]
ParseErr(p, e) == [ok |-> FALSE, parser |-> p, err |-> e]

\* A mistaken last arm: the parser gives up and is Finished.
InvalidStateFinishes(p) ==
    ParseErr([p EXCEPT !.inner = "Finished"], "ParseError.InvalidState")

\* The last arm of the match of Parser::parse, for every pair of state and
\* transition that no arm before it names.
InvalidState(p) == ParseErr(p, "ParseError.InvalidState")

\* Parser::parse: the parser after the transition and the part it yields
\* ("None" while fragments are being combined), or the error.
ParserParse(p, tr) ==
    CASE p.inner = "Std" /\ tr.t = "ParseStdout" /\ p.out \in {"Init", "Started"} ->
            IF InsertPayload(p.stdout_total, tr.payload) < 0
            THEN ParseErr(p, "ParseError.MaximumStreamSizeExceeded")
            ELSE ParseOk([p EXCEPT !.out = "Started",
                            !.stdout_total = InsertPayload(p.stdout_total, tr.payload)],
                         "None")
      [] p.inner = "Std" /\ tr.t = "EndOfStdout" /\ p.out \in {"Init", "Started"} ->
            ParseOk([p EXCEPT !.out = "Ended"], "Stdout")
      [] p.inner = "Std" /\ tr.t = "ParseStderr" /\ p.err \in {"Init", "Started"} ->
            IF InsertPayload(p.stderr_total, tr.payload) < 0
            THEN ParseErr(p, "ParseError.MaximumStreamSizeExceeded")
            ELSE ParseOk([p EXCEPT !.err = "Started",
                            !.stderr_total = InsertPayload(p.stderr_total, tr.payload)],
                         "None")
      [] p.inner = "Std" /\ tr.t = "EndOfStderr" /\ p.err \in {"Init", "Started"} ->
            ParseOk([p EXCEPT !.err = "Ended"], "Stderr")
      [] p.inner = "Std" /\ tr.t = "ParseEndRequest" /\ p.out = "Ended"
            /\ p.err \in {"Init", "Ended"} ->
            IF EndRequestDecodes(tr.payload)
            THEN ParseOk([p EXCEPT !.inner = "Finished"], "EndRequest")
            ELSE ParseErr(p, "ParseError.DecodeEndRequestError")
      [] OTHER -> InvalidState(p)

\* ResponseParser::parse_frame of conn/parser.rs, an earlier client parser:
\* its table has no arm for the end of a stdout stream that has not started,
\* and its frames are kept by a Full, which refuses none within 128 MB.
ResponseParserParseFrame(p, tr) ==
    CASE p.inner = "Std" /\ tr.t = "ParseStdout" /\ p.out \in {"Init", "Started"} ->
            ParseOk([p EXCEPT !.out = "Started"], "None")
      [] p.inner = "Std" /\ tr.t = "EndOfStdout" /\ p.out = "Started" ->
            ParseOk([p EXCEPT !.out = "Ended"], "Stdout")
      [] p.inner = "Std" /\ tr.t = "ParseStderr" /\ p.err \in {"Init", "Started"} ->
            ParseOk([p EXCEPT !.err = "Started"], "None")
      [] p.inner = "Std" /\ tr.t = "EndOfStderr" /\ p.err \in {"Init", "Started"} ->
            ParseOk([p EXCEPT !.err = "Ended"], "Stderr")
      [] p.inner = "Std" /\ tr.t = "ParseEndRequest" /\ p.out = "Ended"
            /\ p.err \in {"Init", "Ended"} ->
            IF EndRequestDecodes(tr.payload)
            THEN ParseOk([p EXCEPT !.inner = "Finished"], "EndRequest")
            ELSE ParseErr(p, "DecodeFrameError")
      [] OTHER -> ParseErr(p, "InvalidState")

\* A parser that takes an EndRequest only once stderr has ended.
ResponseParseStrict(p, frame) ==
    LET tr == TransitionParse(frame) IN
    IF ~tr.ok THEN ParseErr(p, tr.err)
    ELSE IF tr.t = "ParseEndRequest" /\ p.err # "Ended"
    THEN ParseErr(p, "ParseError.InvalidState")
    ELSE ParserParse(p, tr)

\* Transition::parse and Parser::parse on a frame (Stream::parse_frame).
ResponseParse(p, frame) ==
    LET tr == TransitionParse(frame) IN
    IF tr.ok THEN ParserParse(p, tr) ELSE ParseErr(p, tr.err)

\* ------------------------------------------------------------ the request parser
\* request::Parser::new, server::State::new: the Defrag is held as whether it
\* holds payloads and its current_total_payload.
NewRequestParser ==
    [inner |-> "BeginRequest", role |-> "None", has |-> FALSE, total |-> 0]

StreamStates == {"Params", "Stdin", "Data"}

\* request::Transition::parse, server::Transition::parse
RequestTransitionParse(frame) ==
    IF frame.payload # ""
    THEN [t |-> "Parse", type |-> frame.type, payload |-> frame.payload]
    ELSE IF frame.type = "AbortRequest"
    THEN [t |-> "Abort", type |-> frame.type, payload |-> ""]
    ELSE [t |-> "EndOfStream", type |-> frame.type, payload |-> ""]

\* A slip: the Abort arm leaves out the Data state.
AbortAcceptedBeforeData(v, inner) == inner \in {"Params", "Stdin"}

\* The states the Abort arm of the match covers: every state in
\* protocol/parser/request.rs, the three stream states in conn/state.rs.
AbortAccepted(v, inner) == v = "protocol" \/ inner \in StreamStates

\* A slip: the end of stdin finishes the request whatever the role.
AfterStreamSkipsData(p) ==
    CASE p.inner = "Params" -> "Stdin"
      [] p.inner = "Stdin" -> "Finished"
      [] p.inner = "Data" -> "Finished"

\* The state a stream's end leads to.
AfterStream(p) ==
    CASE p.inner = "Params" -> "Stdin"
      [] p.inner = "Stdin" -> IF p.role = "Filter" THEN "Data" ELSE "Finished"
      [] p.inner = "Data" -> "Finished"

\* A slip: a stream that ends with nothing buffered is never an error.
EmptyStreamErrorNever(p) == "none"

\* The error an end of stream is answered with when handle_end_of_stream
\* returned None: params.is_none() and data.is_none() are errors, an empty
\* stdin is not.
EmptyStreamError(p) ==
    CASE p.inner = "Params" /\ ~p.has -> "ParamsMustBeLargerThanZero"
      [] p.inner = "Data" /\ ~p.has -> "DataIsRequiredForFilterApplications"
      [] OTHER -> "none"

\* Parser::parse_frame of protocol/parser/request.rs (v = "protocol") and
\* State::parse_frame of conn/state.rs (v = "conn"), arm by arm.
RequestParse(v, p, tr) ==
    IF p.inner = "BeginRequest" /\ tr.t = "Parse"
    THEN IF tr.type # "BeginRequest" THEN ParseErr(p, "UnexpectedRecordType")
         ELSE ParseOk([p EXCEPT !.role = tr.payload, !.inner = "Params"],
                      "BeginRequest")
    ELSE IF p.inner \in StreamStates /\ tr.t = "Parse"
    THEN IF tr.type # p.inner THEN ParseErr(p, "UnexpectedRecordType")
         ELSE IF InsertPayload(p.total, tr.payload) < 0
         THEN ParseErr(p, "MaximumStreamSizeExceeded")
         ELSE ParseOk([p EXCEPT !.has = TRUE,
                         !.total = InsertPayload(p.total, tr.payload)], "None")
    ELSE IF p.inner \in StreamStates /\ tr.t = "EndOfStream"
    THEN IF tr.type # p.inner THEN ParseErr(p, "UnexpectedRecordType")
         ELSE IF EmptyStreamError(p) # "none"
         THEN ParseErr([p EXCEPT !.inner = AfterStream(p)], EmptyStreamError(p))
         ELSE ParseOk([p EXCEPT !.inner = AfterStream(p), !.has = FALSE], p.inner)
    ELSE IF tr.t = "Abort" /\ AbortAccepted(v, p.inner)
    THEN ParseOk([p EXCEPT !.inner = "Aborted"], "AbortRequest")
    ELSE IF p.inner = "Finished"
    THEN ParseErr(p, IF v = "protocol" THEN "InvalidParser" ELSE "InvalidState")
    ELSE IF tr.t = "Abort" THEN ParseErr(p, "UnexpectedAbortRequest")
    ELSE ParseErr(p, "UnexpectedRecordType")

\* The errors that imply the server already sent its EndRequest, spelled as
\* a slip would: only protocol-status errors.
IsAbortRequiredOnDecodeError(err) == err # "ProtocolStatusError"

\* PendingError::is_abort_required
IsAbortRequired(err) ==
    err \notin {"ProtocolStatusError", "ParseError.DecodeEndRequestError"}

\* ------------------------------------------------------------ requests
\* What a caller may build: a chunker field holds the number of chunks still
\* to encode, and -1 stands for None (stdin not given, or the stream is done).
Shapes ==
    {[keep_conn |-> TRUE, params |-> MaxChunks, stdin |-> 0, data |-> -1,
      role |-> "Responder"],
     [keep_conn |-> TRUE, params |-> 0, stdin |-> -1, data |-> MaxChunks,
      role |-> "Filter"]}

NoRequest == [keep_conn |-> FALSE, params |-> -1, stdin |-> -1, data |-> -1,
              role |-> "Responder"]

\* The dispatcher task has returned: its receivers and its slab are dropped.
DispatcherGone == pc \in {"failed", "done"}

\* The dispatcher is not in the middle of a poll: another task may be polled.
Yielded == pc \in {"idle", "failed", "done"}

\* The sender half of a request's inbound channel is held by the slab only.
RxOpen(r) == \E e \in pending.occ : e.req = r

RecordTypeOf(field) ==
    CASE field = "params" -> "Params"
      [] field = "stdin" -> "Stdin"
      [] field = "data" -> "Data"

\* The stream the send_stream! calls of poll_inner work on next.
NextStream(req) ==
    IF req.params >= 0 THEN "params"
    ELSE IF req.stdin >= 0 THEN "stdin"
    ELSE IF req.role = "Filter" /\ req.data >= 0 THEN "data"
    ELSE "none"

Record(r, t, p) == [id |-> id[r], type |-> t, payload |-> p, req |-> r]

\* The 'sending block of Pending::poll_inner: every send_stream! in turn, from
\* the request as it stands, the record queue q and the poll's iteration count n.
RECURSIVE SendStreams(_, _, _, _)
SendStreams(r, req, q, n) ==
    LET f == NextStream(req) IN
    IF f = "none" THEN [req |-> req, q |-> q, how |-> "sent"]
    ELSE IF DispatcherGone THEN [req |-> req, q |-> q, how |-> "SenderError"]
    ELSE IF Len(q) >= SendLimit THEN [req |-> req, q |-> q, how |-> "blocked"]
    ELSE LET rec == Record(r, RecordTypeOf(f), IF req[f] > 0 THEN "b" ELSE "")
             req2 == [req EXCEPT ![f] = req[f] - 1]
             q2 == Append(q, rec)
         IN IF n + 1 = YieldAt
            THEN [req |-> req2, q |-> q2, how |-> "yield"]
            ELSE SendStreams(r, req2, q2, n + 1)

\* The sending half of Pending::poll_inner (state Running).
SendPhase(r) ==
    IF pstate[r] # "Running" THEN [req |-> request[r], q |-> appQ, how |-> "skip"]
    ELSE IF request[r].keep_conn
    THEN IF DispatcherGone
         THEN [req |-> request[r], q |-> appQ, how |-> "SenderError"]
         ELSE IF Len(appQ) >= SendLimit
         THEN [req |-> request[r], q |-> appQ, how |-> "return"]
         ELSE SendStreams(r, [request[r] EXCEPT !.keep_conn = FALSE],
                          Append(appQ, Record(r, "BeginRequest", "b")), 1)
    ELSE SendStreams(r, request[r], appQ, 0)

\* The receiving loop of Pending::poll_inner on channel buffer ch with parser p,
\* after k frames of this poll.
RECURSIVE RecvLoop(_, _, _, _)
RecvLoop(r, ch, p, k) ==
    IF k = YieldAt THEN [rx |-> ch, parser |-> p, res |-> "exhausted"]
    ELSE IF ch = <<>>
    THEN [rx |-> ch, parser |-> p,
          res |-> IF RxOpen(r) THEN "empty" ELSE "RecvChannelClosedEarly"]
    ELSE LET tr == TransitionParse(Head(ch)) IN
         IF ~tr.ok THEN [rx |-> Tail(ch), parser |-> p, res |-> tr.err]
         ELSE LET pr == ParserParse(p, tr) IN
              IF ~pr.ok THEN [rx |-> Tail(ch), parser |-> pr.parser, res |-> pr.err]
              ELSE IF pr.part = "EndRequest"
              THEN [rx |-> Tail(ch), parser |-> pr.parser,
                    res |-> IF tr.payload = "RequestComplete" THEN "Ok"
                            ELSE "ProtocolStatusError"]
              ELSE RecvLoop(r, Tail(ch), pr.parser, k + 1)

\* Pending::poll_inner: the request, the record queue, the state, the channel
\* and the parser after the poll; out is "none" for Poll::Pending.
PollInner(r) ==
    LET same == [req |-> request[r], q |-> appQ, ps |-> pstate[r], rx |-> rx[r],
                 parser |-> parser[r], out |-> "none", waiting |-> {},
                 wake |-> FALSE]
    IN
    IF expired[r] THEN [same EXCEPT !.out = "Expired"]
    ELSE
    LET s == SendPhase(r)
        ps == IF s.how = "sent" THEN "ReceiveOnly" ELSE pstate[r]
        sent == [same EXCEPT !.req = s.req, !.q = s.q, !.ps = ps,
                             !.wake = (s.how = "yield"),
                             !.waiting = IF s.how = "blocked" THEN {"tx"} ELSE {}]
    IN
    IF s.how = "SenderError" THEN [sent EXCEPT !.out = "SenderError"]
    ELSE IF s.how = "return" THEN [same EXCEPT !.waiting = {"tx"}]
    ELSE IF s.req.params >= 0 THEN sent
    ELSE
    LET v == RecvLoop(r, rx[r], parser[r], 0) IN
    [sent EXCEPT !.rx = v.rx, !.parser = v.parser,
                 !.out = IF v.res \in {"empty", "exhausted"} THEN "none" ELSE v.res,
                 !.waiting = IF v.res = "empty" THEN @ \cup {"rx"} ELSE @]

\* A waker of the Pending's task has fired.
Runnable(r) ==
    \/ wake[r]
    \/ "tx" \in waiting[r] /\ (Len(appQ) < SendLimit \/ DispatcherGone)
    \/ "rx" \in waiting[r] /\ (rx[r] # <<>> \/ ~RxOpen(r))

\* Calls made, frames arrived and faults so far.
Events == Cardinality({r \in Reqs : st[r] # "idle"}) + inCount + faults

\* No stream is being sent and the Defrag is new.
NoStream == [off |-> 0, len |-> 0, some |-> FALSE]


ChunkIdle ==
    /\ streams = <<>>
    /\ chunker = NoStream
    /\ records = <<>>
    /\ taken = 0
    /\ defrag = [payloads |-> <<>>, current_total_payload |-> 0]
    /\ results = <<>>

\* FastCgiCodec::new
NewCodec(which) ==
    [which |-> which, state |-> "Header", id |-> 0, record_type |-> 0,
     content_length |-> 0, skip |-> 0]

CodecIdle ==
    /\ encoded = <<>>
    /\ dst = <<>>
    /\ src = <<>>
    /\ codec = NewCodec("none")
    /\ frames = <<>>

NvpIdle ==
    /\ nvps = <<>>
    /\ nvbuf = <<>>
    /\ decoded = <<>>
    /\ chunks = <<>>

\* Nothing sent or received yet.
NoneRequest ==
    [role |-> "None", params |-> <<>>, stdin |-> <<>>, data |-> <<>>]

NoneResponse ==
    [some |-> FALSE, stdout |-> <<>>, stderr |-> <<>>, app_status |-> 0]

RecvNothing(what) == [res |-> "none", err |-> "None", got |-> what]

EchoIdle ==
    /\ sentRequest = NoneRequest
    /\ c2s = <<>>
    /\ spayloads = <<>>
    /\ received = RecvNothing(NoneRequest)
    /\ sentResponse = NoneResponse
    /\ s2c = <<>>
    /\ cpayloads = [Stdout |-> <<>>, Stderr |-> <<>>]
    /\ response = RecvNothing(NoneResponse)

PureIdle == ChunkIdle /\ CodecIdle /\ NvpIdle /\ EchoIdle

\* ------------------------------------------------------------ the futures
NoFrame == [id |-> -1, type |-> "none", registered |-> FALSE, accepted |-> FALSE,
            req |-> 0]

\* Client::with_config: the queues are empty, the slab is empty, the dispatcher
\* is Running and not polled yet; alive tells whether a Client was made at all.
MuxInit(alive) ==
    /\ recv_channel_limit \in (IF alive THEN 1..RecvLimit ELSE {RecvLimit})
    /\ clientAlive = alive
    /\ st = [r \in Reqs |-> "idle"]
    /\ reply = [r \in Reqs |-> 0]
    /\ id = [r \in Reqs |-> 0]
    /\ pstate = [r \in Reqs |-> "Running"]
    /\ request = [r \in Reqs |-> NoRequest]
    /\ rx = [r \in Reqs |-> <<>>]
    /\ parser = [r \in Reqs |-> NewParser]
    /\ waiting = [r \in Reqs |-> {}]
    /\ wake = [r \in Reqs |-> FALSE]
    /\ expired = [r \in Reqs |-> FALSE]
    /\ outcome = [r \in Reqs |-> "none"]
    /\ cleanup = [r \in Reqs |-> "none"]
    /\ cmdQ = <<>>
    /\ appQ = <<>>
    /\ pending = EmptySlab
    /\ aborting = <<>>
    /\ state = "Running"
    /\ pc = "idle"
    /\ iteration_count = 0
    /\ dwake = FALSE
    /\ wire = [i \in Ids |-> <<>>]
    /\ flushed = [i \in Ids |-> 0]
    /\ inbox = <<>>
    /\ inCount = 0
    /\ srvOpen = {}
    /\ lastRecv = NoFrame
    /\ seen = [r \in Reqs |-> 0]
    /\ got = [r \in Reqs |-> <<>>]
    /\ ended = {}
    /\ faults = 0

Init ==
    /\ MuxInit(TRUE)
    /\ PureIdle
    /\ endpoint = "none"
    /\ variant = "none"
    /\ cstate = NewParser
    /\ sstate = NewRequestParser
    /\ fed = <<>>

\* Client::send up to the first poll of its RegisterId: the Register command
\* is queued when the command queue has room. Calls are numbered in the order
\* they are made, and the calls of one run carry requests of one role.
Send(r, shape) ==
    /\ Yielded /\ clientAlive /\ st[r] = "idle" /\ Events < MaxEvents
    /\ \A q \in Reqs : q < r => st[q] # "idle" /\ request[q].role = shape.role
    /\ request' = [request EXCEPT ![r] = shape]
    /\ IF DispatcherGone
       THEN /\ st' = [st EXCEPT ![r] = "failed"]
            /\ cmdQ' = cmdQ
       ELSE IF Len(cmdQ) < SendLimit
       THEN /\ st' = [st EXCEPT ![r] = "wait"]
            /\ cmdQ' = Append(cmdQ, [type |-> "Register", req |-> r, id |-> 0])
       ELSE /\ st' = [st EXCEPT ![r] = "start"]
            /\ cmdQ' = cmdQ
    /\ UNCHANGED <<clientAlive, reply, id, pstate, rx, parser, waiting, wake, expired,
                   outcome, cleanup, appQ, pc>>
    /\ UNCHANGED <<dispVars, netVars, histVars, faults>>
    /\ UNCHANGED <<recv_channel_limit, connVars, pureVars>>

\* RegisterId::poll while no Register command was sent yet (id_receiver is None),
\* woken by room in the command queue or by its closing.
PollRegisterSend(r) ==
    /\ Yielded /\ st[r] = "start"
    /\ DispatcherGone \/ Len(cmdQ) < SendLimit
    /\ IF DispatcherGone
       THEN /\ st' = [st EXCEPT ![r] = "failed"]
            /\ cmdQ' = cmdQ
       ELSE /\ st' = [st EXCEPT ![r] = "wait"]
            /\ cmdQ' = Append(cmdQ, [type |-> "Register", req |-> r, id |-> 0])
    /\ UNCHANGED <<clientAlive, reply, id, pstate, request, rx, parser, waiting, wake,
                   expired, outcome, cleanup, appQ, pc>>
    /\ UNCHANGED <<dispVars, netVars, histVars, faults>>
    /\ UNCHANGED <<recv_channel_limit, connVars, pureVars>>

\* RegisterId::poll woken by the one-shot reply: an id makes the Pending
\* (Pending::new), None leaves the future pending with id_receiver taken and
\* no waker registered, a dropped sender is an IdAssignError.
PollRegisterReply(r) ==
    /\ Yielded /\ st[r] = "wait" /\ reply[r] # 0
    /\ IF reply[r] > 0
       THEN /\ st' = [st EXCEPT ![r] = "pending"]
            /\ id' = [id EXCEPT ![r] = reply[r]]
            /\ wake' = [wake EXCEPT ![r] = TRUE]
       ELSE /\ st' = [st EXCEPT ![r] = IF reply[r] = -1 THEN "parked" ELSE "failed"]
            /\ UNCHANGED <<id, wake>>
    /\ UNCHANGED <<clientAlive, reply, pstate, request, rx, parser, waiting, expired,
                   outcome, cleanup, cmdQ, appQ, pc>>
    /\ UNCHANGED <<dispVars, netVars, histVars, faults>>
    /\ UNCHANGED <<recv_channel_limit, connVars, pureVars>>

\* Pending::poll: poll_inner, and on a result the Cleanup task is spawned with
\* abort set as the source computes it; the future is then dropped by its caller.
PollPending(r) ==
    /\ Yielded /\ st[r] = "pending" /\ Runnable(r)
    /\ LET v == PollInner(r) IN
       /\ request' = [request EXCEPT ![r] = v.req]
       /\ appQ' = v.q
       /\ pstate' = [pstate EXCEPT ![r] = v.ps]
       /\ rx' = [rx EXCEPT ![r] = v.rx]
       /\ parser' = [parser EXCEPT ![r] = v.parser]
       /\ waiting' = [waiting EXCEPT ![r] = v.waiting]
       /\ wake' = [wake EXCEPT ![r] = v.wake]
       /\ outcome' = [outcome EXCEPT ![r] = v.out]
       /\ IF v.out = "none"
          THEN UNCHANGED <<st, cleanup>>
          ELSE /\ st' = [st EXCEPT ![r] = "resolved"]
               /\ cleanup' = [cleanup EXCEPT ![r] =
                     IF v.out # "Ok" /\ IsAbortRequired(v.out) /\ ~v.req.keep_conn
                     THEN "abort" ELSE "close"]
    /\ UNCHANGED <<clientAlive, reply, id, expired, cmdQ, pc>>
    /\ UNCHANGED <<dispVars, netVars, histVars, faults>>
    /\ UNCHANGED <<recv_channel_limit, connVars, pureVars>>

\* Cleanup::poll: with abort set, the Abort command is queued once the command
\* queue has room (a closed queue ends the task with an error); then the
\* sender is closed.
PollCleanup(r) ==
    /\ Yielded /\ cleanup[r] \in {"abort", "close"}
    /\ cleanup[r] = "abort" => DispatcherGone \/ Len(cmdQ) < SendLimit
    /\ IF cleanup[r] = "close"
       THEN /\ cleanup' = [cleanup EXCEPT ![r] = "closed"]
            /\ cmdQ' = cmdQ
       ELSE IF DispatcherGone
       THEN /\ cleanup' = [cleanup EXCEPT ![r] = "failed"]
            /\ cmdQ' = cmdQ
       ELSE /\ cleanup' = [cleanup EXCEPT ![r] = "sent"]
            /\ cmdQ' = Append(cmdQ, [type |-> "Abort", req |-> r, id |-> id[r]])
    /\ UNCHANGED <<clientAlive, st, reply, id, pstate, request, rx, parser, waiting,
                   wake, expired, outcome, appQ, pc>>
    /\ UNCHANGED <<dispVars, netVars, histVars, faults>>
    /\ UNCHANGED <<recv_channel_limit, connVars, pureVars>>

\* The deadline of a Pending passes. Nothing is woken: no timer is set, the
\* deadline is only compared with the clock when the future is polled.
Tick(r) ==
    /\ Yielded /\ st[r] = "pending" /\ ~expired[r]
    /\ faults < MaxFaults /\ Events < MaxEvents
    /\ faults' = faults + 1
    /\ expired' = [expired EXCEPT ![r] = TRUE]
    /\ UNCHANGED <<clientAlive, st, reply, id, pstate, request, rx, parser, waiting,
                   wake, outcome, cleanup, cmdQ, appQ, pc>>
    /\ UNCHANGED <<dispVars, netVars, histVars>>
    /\ UNCHANGED <<recv_channel_limit, connVars, pureVars>>

\* The caller drops a Pending before it resolved: its fields are dropped (the
\* record sender, the command sender, the inbound receiver); Pending has no
\* Drop implementation, so nothing else happens.
DropPending(r) ==
    /\ Yielded /\ st[r] = "pending"
    /\ faults < MaxFaults /\ Events < MaxEvents
    /\ faults' = faults + 1
    /\ st' = [st EXCEPT ![r] = "dropped"]
    /\ UNCHANGED <<clientAlive, reply, id, pstate, request, rx, parser, waiting,
                   wake, expired, outcome, cleanup, cmdQ, appQ, pc>>
    /\ UNCHANGED <<dispVars, netVars, histVars>>
    /\ UNCHANGED <<recv_channel_limit, connVars, pureVars>>

\* The last Client handle is dropped: the management queue is closed, which
\* wakes the dispatcher. A call of send in progress borrows its Client, so
\* none is.
DropClient ==
    /\ Yielded /\ clientAlive
    /\ \A r \in Reqs : st[r] \notin {"start", "wait", "parked"}
    /\ faults < MaxFaults /\ Events < MaxEvents
    /\ faults' = faults + 1
    /\ clientAlive' = FALSE
    /\ dwake' = TRUE
    /\ UNCHANGED <<reqVars, cmdQ, appQ, pending, aborting, state, pc,
                   iteration_count, lastRecv>>
    /\ UNCHANGED <<netVars, histVars>>
    /\ UNCHANGED <<recv_channel_limit, connVars, pureVars>>

\* ------------------------------------------------------------ the dispatcher
\* VecDeque::swap_remove_back(0): the front is removed and the back takes its place.
SwapRemoveBack0(q) ==
    IF Len(q) <= 1 THEN <<>>
    ELSE <<q[Len(q)]>> \o SubSeq(q, 2, Len(q) - 1)

\* A waker the dispatcher registered in its last poll has fired.
DispatcherWoken ==
    \/ dwake
    \/ cmdQ # <<>>
    \/ state = "Running" /\ clientAlive /\ appQ # <<>>
    \/ SlabLen(pending) > 0 /\ inbox # <<>>

DispStart ==
    /\ pc = "idle" /\ DispatcherWoken
    /\ pc' = "loop"
    /\ iteration_count' = 0
    /\ dwake' = FALSE
    /\ UNCHANGED <<clientAlive, reqVars, cmdQ, appQ, pending, aborting, state, lastRecv>>
    /\ UNCHANGED <<netVars, histVars, faults>>
    /\ UNCHANGED <<recv_channel_limit, connVars, pureVars>>

\* The loop with the application records polled ahead of the queued aborts.
ArmApplicationFirst ==
    IF cmdQ # <<>> THEN "command"
    ELSE IF clientAlive /\ state = "Running" /\ appQ # <<>> THEN "application"
    ELSE IF aborting # <<>> THEN "abort"
    ELSE IF ~clientAlive THEN "management"
    ELSE "application"

\* The arm one turn of the loop takes (mod.rs 194-290): a ready command
\* first; otherwise, the sink being ready, a queued abort; otherwise the
\* management queue, which is ready only once it is closed, no handle ever
\* sending on it; otherwise the application records.
Arm ==
    IF cmdQ # <<>> THEN "command"
    ELSE IF aborting # <<>> THEN "abort"
    ELSE IF ~clientAlive THEN "management"
    ELSE "application"

\* Command::Register (mod.rs 196-212)
HandleRegister(c) ==
    IF state = "Running" /\ SlabLen(pending) < SlotLimit
    THEN LET key == VacantKey(pending) IN
         /\ reply' = [reply EXCEPT ![c.req] = key + 1]
         /\ pending' = IF st[c.req] = "wait" THEN SlabInsert(pending, key, c.req)
                       ELSE pending
         /\ aborting' = aborting
    ELSE /\ reply' = [reply EXCEPT ![c.req] = -1]
         /\ UNCHANGED <<pending, aborting>>

\* Command::Abort (mod.rs 213-220)
HandleAbort(c) ==
    LET key == c.id - 1 IN
    /\ reply' = reply
    /\ IF SlabContains(pending, key)
       THEN /\ aborting' = Append(aborting,
                   [id |-> c.id, req |-> c.req, slot |-> SlabOwner(pending, key)])
            /\ pending' = SlabRemove(pending, key)
       ELSE UNCHANGED <<pending, aborting>>

\* One turn of the loop with a command ready.
DispCommand ==
    /\ pc = "loop" /\ Arm = "command"
    /\ cmdQ' = Tail(cmdQ)
    /\ IF Head(cmdQ).type = "Register" THEN HandleRegister(Head(cmdQ))
       ELSE HandleAbort(Head(cmdQ))
    /\ UNCHANGED <<clientAlive, st, id, pstate, request, rx, parser, waiting, wake,
                   expired, outcome, cleanup, appQ, state, pc, iteration_count, dwake,
                   lastRecv>>
    /\ UNCHANGED <<netVars, histVars, faults>>
    /\ UNCHANGED <<recv_channel_limit, connVars, pureVars>>

\* One turn of the loop with no command ready and the sink ready: an
\* AbortRequest frame is written for the id swap_remove_back(0) yields.
DispAbortFrame ==
    /\ pc = "loop" /\ Arm = "abort"
    /\ wire' = [wire EXCEPT ![aborting[1].id] =
                    Append(@, [id |-> aborting[1].id, type |-> "AbortRequest",
                               payload |-> "", req |-> aborting[1].req,
                               slot |-> aborting[1].slot])]
    /\ aborting' = SwapRemoveBack0(aborting)
    /\ UNCHANGED <<clientAlive, reqVars, cmdQ, appQ, pending, state, pc,
                   iteration_count, dwake, lastRecv, flushed, inbox, inCount, srvOpen>>
    /\ UNCHANGED <<histVars, faults>>
    /\ UNCHANGED <<recv_channel_limit, connVars, pureVars>>

\* One turn of the loop with nothing to abort and the management queue closed
\* (every Client handle dropped): rx_management yields Ready(None), which the
\* source does not handle, so the turn does nothing and the loop comes back to
\* it until the runtime's poll budget is spent; both queues then report
\* Pending, the loop breaks and the task is woken again. No application
\* record is read.
DispManagementClosed ==
    /\ pc = "loop" /\ Arm = "management"
    /\ pc' = "flush"
    /\ dwake' = TRUE
    /\ UNCHANGED <<clientAlive, reqVars, cmdQ, appQ, pending, aborting, state,
                   iteration_count, lastRecv>>
    /\ UNCHANGED <<netVars, histVars, faults>>
    /\ UNCHANGED <<recv_channel_limit, connVars, pureVars>>

\* One turn of the loop that reaches the application records (mod.rs 256-287).
DispApplication ==
    /\ pc = "loop" /\ Arm = "application"
    /\ IF state = "Running" /\ appQ # <<>>
       THEN LET record == Head(appQ) IN
            /\ appQ' = Tail(appQ)
            /\ IF ~SlabContains(pending, record.id - 1)
               THEN UNCHANGED <<wire, iteration_count, dwake, pc>>
               ELSE /\ wire' = [wire EXCEPT ![record.id] = Append(@,
                          [id |-> record.id, type |-> record.type,
                           payload |-> record.payload, req |-> record.req,
                           slot |-> SlabOwner(pending, record.id - 1)])]
                    /\ iteration_count' = iteration_count + 1
                    /\ IF iteration_count + 1 = YieldSenderAfter
                       THEN dwake' = TRUE /\ pc' = "flush"
                       ELSE UNCHANGED <<dwake, pc>>
       ELSE /\ pc' = "flush"
            /\ UNCHANGED <<appQ, wire, iteration_count, dwake>>
    /\ UNCHANGED <<clientAlive, reqVars, cmdQ, pending, aborting, state, lastRecv,
                   flushed, inbox, inCount, srvOpen>>
    /\ UNCHANGED <<histVars, faults>>
    /\ UNCHANGED <<recv_channel_limit, connVars, pureVars>>

\* The sink fails (poll_ready returns an error): the task returns the error
\* and everything it owns is dropped.
DispSinkError ==
    /\ pc = "loop" /\ cmdQ = <<>>
    /\ faults < MaxFaults /\ Events < MaxEvents
    /\ faults' = faults + 1
    /\ pc' = "failed"
    /\ pending' = EmptySlab
    /\ aborting' = <<>>
    /\ appQ' = <<>>
    /\ UNCHANGED <<clientAlive, reqVars, cmdQ, state, iteration_count, dwake, lastRecv>>
    /\ UNCHANGED <<netVars, histVars>>
    /\ UNCHANGED <<recv_channel_limit, connVars, pureVars>>

\* The ids with a BeginRequest frame written and not flushed yet.
BegunUnflushed ==
    {i \in Ids : \E j \in (flushed[i] + 1)..Len(wire[i]) :
                    wire[i][j].type = "BeginRequest"}

\* After the loop: the sink is flushed or closed, only while a request is
\* registered (mod.rs 295-320).
DispFlush ==
    /\ pc = "flush"
    /\ pc' = "recv"
    /\ iteration_count' = 0
    /\ IF SlabLen(pending) > 0 /\ state \in {"Running", "StoppedSending"}
       THEN /\ flushed' = [i \in Ids |-> Len(wire[i])]
            /\ srvOpen' = srvOpen \cup BegunUnflushed
            /\ state' = IF state = "StoppedSending" THEN "ReceiveOnly" ELSE state
       ELSE UNCHANGED <<flushed, srvOpen, state>>
    /\ UNCHANGED <<clientAlive, reqVars, cmdQ, appQ, pending, aborting, dwake,
                   lastRecv, wire, inbox, inCount>>
    /\ UNCHANGED <<histVars, faults>>
    /\ UNCHANGED <<recv_channel_limit, connVars, pureVars>>

\* mpsc::Sender::try_send on the inbound channel of request r.
TrySendOk(r) == st[r] \in {"wait", "pending"} /\ Len(rx[r]) < recv_channel_limit

\* A slip: the entry is kept when the channel did not take the frame.
RouteRemovesOnEndOnly(type, ok) == type = "EndRequest"

\* A slip: an EndRequest is routed like any other frame, and its entry goes
\* only when the channel did not take it.
RouteRemovesOnFailure(type, ok) == ~ok

\* The slab after a frame of the given type was routed to the entry at key:
\* an EndRequest takes the entry out first; a failed try_send drops it.
RouteRemoves(type, ok) == type = "EndRequest" \/ ~ok

\* A slip: no frame is taken for a management frame.
IsManagementNever(i) == FALSE

\* The test both readers make before a frame is routed or parsed.
IsManagement(i) == i = MANAGEMENT_ID

\* One turn of the receive loop (mod.rs 324-385).
DispRecv ==
    /\ pc = "recv"
    /\ IF SlabLen(pending) = 0
       THEN \* Close if done (mod.rs 387-406).
            /\ pc' = IF state \in {"StoppedSending", "ReceiveOnly"} THEN "done"
                     ELSE "idle"
            /\ lastRecv' = NoFrame
            /\ UNCHANGED <<pending, rx, inbox, seen, got, ended, dwake>>
       ELSE IF inbox = <<>>
       THEN /\ pc' = "idle"
            /\ lastRecv' = NoFrame
            /\ UNCHANGED <<pending, rx, inbox, seen, got, ended, dwake>>
       ELSE IF Head(inbox).type = "Eof"
       THEN \* try_poll_next yields None again and again; the poll ends when
            \* the runtime's budget is spent, and the task is woken again.
            /\ pc' = "idle"
            /\ dwake' = TRUE
            /\ lastRecv' = [NoFrame EXCEPT !.type = "Eof"]
            /\ UNCHANGED <<pending, rx, inbox, seen, got, ended>>
       ELSE LET frame == Head(inbox)
                key == frame.id - 1
            IN
            /\ inbox' = Tail(inbox)
            /\ pc' = pc
            /\ dwake' = dwake
            /\ IF frame.type = "Error" \/ IsManagement(frame.id)
                  \/ ~SlabContains(pending, key)
               THEN /\ lastRecv' = [id |-> frame.id, type |-> frame.type,
                                    registered |-> FALSE, accepted |-> FALSE,
                                    req |-> 0]
                    /\ UNCHANGED <<pending, rx, seen, got, ended>>
               ELSE LET r == SlabOwner(pending, key)
                        ok == TrySendOk(r)
                    IN
                    /\ lastRecv' = [id |-> frame.id, type |-> frame.type,
                                    registered |-> TRUE, accepted |-> ok, req |-> r]
                    /\ rx' = IF ok THEN [rx EXCEPT ![r] =
                                            Append(@, Frame(frame.id, frame.type,
                                                            frame.payload))]
                             ELSE rx
                    /\ pending' = IF RouteRemoves(frame.type, ok)
                                  THEN SlabRemove(pending, key) ELSE pending
                    /\ seen' = [seen EXCEPT ![r] = @ + 1]
                    /\ got' = IF ok THEN [got EXCEPT ![r] = Append(@, seen[r] + 1)]
                              ELSE got
                    /\ ended' = IF frame.type = "EndRequest" THEN ended \cup {r}
                                ELSE ended
    /\ UNCHANGED <<clientAlive, st, reply, id, pstate, request, parser, waiting, wake,
                   expired, outcome, cleanup, cmdQ, appQ, aborting, state,
                   iteration_count, wire, flushed, inCount, srvOpen, faults>>
    /\ UNCHANGED <<recv_channel_limit, connVars, pureVars>>

\* ------------------------------------------------------------ the peer
ServerFrames ==
    {<<"Stdout", "b">>, <<"Stdout", "">>, <<"EndRequest", "RequestComplete">>,
     <<"EndRequest", "Overloaded">>, <<"EndRequest", "corrupt">>}

\* What the transport yields next arrives when the dispatcher looks for it:
\* during its receive loop, or while it waits on the transport with nothing
\* else to do, which schedules it. (What arrives between two polls is there
\* at the next one.)
Arrives(item, n) ==
    /\ inCount < MaxInbound /\ inbox = <<>> /\ SlabLen(pending) > 0
    /\ pc = "recv" \/ (pc = "idle" /\ ~DispatcherWoken)
    /\ inbox' = <<item>>
    /\ inCount' = inCount + n
    /\ IF pc = "idle"
       THEN pc' = "loop" /\ iteration_count' = 0 /\ lastRecv' = NoFrame
       ELSE UNCHANGED <<pc, iteration_count, lastRecv>>
    /\ UNCHANGED <<clientAlive, reqVars, cmdQ, appQ, pending, aborting, state, dwake,
                   wire, flushed>>
    /\ UNCHANGED histVars
    /\ UNCHANGED <<recv_channel_limit, connVars, pureVars>>

\* The peer sends a frame of a request it has open; its EndRequest closes it.
ServerSend(i, k) ==
    /\ i \in srvOpen /\ Events < MaxEvents
    /\ Arrives(Frame(i, k[1], k[2]), 1)
    /\ srvOpen' = IF k[1] = "EndRequest" THEN srvOpen \ {i} ELSE srvOpen
    /\ faults' = faults

\* The peer sends a record under request id 0 that the decoder takes: one of
\* a management type above 11.
ServerManagement ==
    /\ Events < MaxEvents
    /\ Arrives(Frame(MANAGEMENT_ID, "Custom", "b"), 1)
    /\ UNCHANGED <<srvOpen, faults>>

\* The peer sends a record of type 0, 9 (GetValues), 10 (GetValuesResult) or
\* 11 (UnknownType): Header::decode makes its RecordType with
\* ManagementRecordType::new, whose `assert!(n > 11)` fails. The panic ends
\* the dispatcher's task in its receive loop and drops everything it owns.
DecoderPanics ==
    /\ pc = "recv" /\ SlabLen(pending) > 0 /\ inbox = <<>>
    /\ inCount < MaxInbound
    /\ faults < MaxFaults /\ Events < MaxEvents
    /\ faults' = faults + 1
    /\ pc' = "failed"
    /\ pending' = EmptySlab
    /\ aborting' = <<>>
    /\ appQ' = <<>>
    /\ UNCHANGED <<clientAlive, reqVars, cmdQ, state, iteration_count, dwake, lastRecv>>
    /\ UNCHANGED <<netVars, histVars>>
    /\ UNCHANGED <<recv_channel_limit, connVars, pureVars>>

\* The transport yields a decoder error (IncompatibleVersion, CorruptedHeader),
\* a read error (StdIoError), or the end of its input, while requests are
\* registered.
TransportFails(kind) ==
    /\ faults < MaxFaults /\ Events < MaxEvents
    /\ faults' = faults + 1
    /\ Arrives([id |-> -1, payload |-> "",
                type |-> IF kind = "Eof" THEN "Eof" ELSE "Error"], 0)
    /\ srvOpen' = srvOpen

TransportErrors == {"IncompatibleVersion", "CorruptedHeader", "StdIoError", "Eof"}

\* ------------------------------------------------------------ the system
Next ==
    \/ \E r \in Reqs, shape \in Shapes : Send(r, shape)
    \/ \E r \in Reqs : PollRegisterSend(r)
    \/ \E r \in Reqs : PollRegisterReply(r)
    \/ \E r \in Reqs : PollPending(r)
    \/ \E r \in Reqs : PollCleanup(r)
    \/ \E r \in Reqs : Tick(r)
    \/ \E r \in Reqs : DropPending(r)
    \/ DropClient
    \/ DispStart
    \/ DispCommand
    \/ DispAbortFrame
    \/ DispManagementClosed
    \/ DispApplication
    \/ DispSinkError
    \/ DispFlush
    \/ DispRecv
    \/ \E i \in Ids, k \in ServerFrames : ServerSend(i, k)
    \/ ServerManagement
    \/ DecoderPanics
    \/ \E kind \in TransportErrors : TransportFails(kind)

Spec == Init /\ [][Next]_vars

\* ------------------------------------------------------------ simplex, parsers
\* What a peer can send under the request id of a simplex connection.
ResponseFrames == ServerFrames \cup {<<"Stderr", "b">>, <<"Stderr", "">>}

RequestFrames ==
    {<<"BeginRequest", "Responder">>, <<"BeginRequest", "Filter">>,
     <<"Params", "b">>, <<"Params", "">>, <<"Stdin", "b">>, <<"Stdin", "">>,
     <<"Data", "b">>, <<"Data", "">>, <<"AbortRequest", "">>}

\* What a peer can send under request id 0: a management record, or a frame
\* that would move the parser if it were parsed.
ManagementFrames ==
    {<<"GetValuesResult", "b">>,
     IF endpoint = "Client" THEN <<"Stdout", "">> ELSE <<"AbortRequest", "">>}

PeerFrames == IF endpoint = "Client" THEN ResponseFrames ELSE RequestFrames

ParseErrors == Cardinality({k \in 1..Len(fed) : ~fed[k].ok})

InnerOf(ep, c, s2) == IF ep = "Client" THEN c.inner ELSE s2.inner

\* Stream::parse_frame of the endpoint's state, and the same two calls on a
\* parser of protocol/parser: the transition is parsed from the frame and
\* applied; what was read and what came of it is kept in fed.
Feed(frame) ==
    LET res == IF endpoint = "Client" THEN ResponseParse(cstate, frame)
               ELSE RequestParse(variant, sstate, RequestTransitionParse(frame))
    IN
    /\ cstate' = IF endpoint = "Client" THEN res.parser ELSE cstate
    /\ sstate' = IF endpoint = "Client" THEN sstate ELSE res.parser
    /\ fed' = Append(fed,
           [frame |-> frame, parsed |-> TRUE, ok |-> res.ok,
            part |-> IF res.ok THEN res.part ELSE "None",
            err |-> IF res.ok THEN "none" ELSE res.err,
            from |-> InnerOf(endpoint, cstate, sstate),
            to |-> IF endpoint = "Client" THEN res.parser.inner
                   ELSE res.parser.inner])

\* One turn of the loop of Connection::poll_frame: a frame with id 0 is
\* dropped and the loop reads on; any other is parsed and the result returned.
ConnPollFrame(frame) ==
    /\ variant = "conn" /\ Len(fed) < MaxFrames /\ ParseErrors < MaxParseErrors
    /\ IF IsManagement(frame.id)
       THEN /\ fed' = Append(fed,
                   [frame |-> frame, parsed |-> FALSE, ok |-> TRUE, part |-> "None",
                    err |-> "none", from |-> InnerOf(endpoint, cstate, sstate),
                    to |-> InnerOf(endpoint, cstate, sstate)])
            /\ UNCHANGED <<cstate, sstate>>
       ELSE Feed(frame)
    /\ UNCHANGED <<muxVars, endpoint, variant, pureVars>>

\* A parser of protocol/parser is handed the next frame of its request (the
\* dispatcher routes no frame with id 0 to a request).
ParseFrame(frame) ==
    /\ variant = "protocol" /\ Len(fed) < MaxFrames /\ ParseErrors < MaxParseErrors
    /\ ~IsManagement(frame.id)
    /\ Feed(frame)
    /\ UNCHANGED <<muxVars, endpoint, variant, pureVars>>

\* A connection of either endpoint, or a parser of either kind, before its
\* first frame; no multiplexed client is made.
ConnInit ==
    /\ MuxInit(FALSE)
    /\ PureIdle
    /\ endpoint \in {"Client", "Server"}
    /\ variant \in {"conn", "protocol"}
    /\ cstate = NewParser
    /\ sstate = NewRequestParser
    /\ fed = <<>>

ConnNext ==
    \/ \E k \in PeerFrames : ConnPollFrame(Frame(1, k[1], k[2]))
    \/ \E k \in ManagementFrames : ConnPollFrame(Frame(MANAGEMENT_ID, k[1], k[2]))
    \/ \E k \in PeerFrames : ParseFrame(Frame(1, k[1], k[2]))

ConnSpec == ConnInit /\ [][ConnNext]_vars

\* A process that holds a multiplexed client, or a simplex connection.
BothSpec == (Init \/ ConnInit) /\ [][Next \/ ConnNext]_vars

\* ------------------------------------------------ stream chunks and Defrag
\* Bytes are named by where they lie in their stream: [s, off, len] is the
\* len bytes at offset off of stream number s, as a Bytes handle names a range
\* of a shared buffer.

\* The limit the senders put on the encode buffer of a stream record.
EncodeLimit == 65535

\* The lengths of the streams sent.
StreamSizes ==
    {0, 1, 2, 65534, 65535, 65536, 100000, 131070, 131071, MaxTotalPayload,
     MaxTotalPayload + 1}

\* A mistaken chunk length: the whole of what is left.
ChunkLenUnlimited(remaining_mut, len) == len

\* ByteSlice::encode_chunk: n = buf.remaining_mut().min(self.bytes.len())
ChunkLen(remaining_mut, len) == IF remaining_mut < len THEN remaining_mut ELSE len

CurrentStream == Len(streams)

\* The caller's loop step over StreamChunker::encode: the next chunk becomes
\* a record (buf.split()), and when encode_chunk has nothing left the chunker
\* is taken and the empty record that ends the stream is sent.
SendStream ==
    /\ streams # <<>> /\ streams[CurrentStream].by = "chunker"
    /\ chunker.some
    /\ IF chunker.len = 0
       THEN /\ chunker' = NoStream
            /\ records' = Append(records, [s |-> CurrentStream, off |-> chunker.off,
                                           len |-> 0])
       ELSE LET n == ChunkLen(EncodeLimit, chunker.len) IN
            /\ chunker' = [chunker EXCEPT !.off = @ + n, !.len = @ - n]
            /\ records' = Append(records, [s |-> CurrentStream, off |-> chunker.off,
                                           len |-> n])
    /\ UNCHANGED <<streams, taken, defrag, results>>
    /\ UNCHANGED <<muxVars, connVars, codecVars, nvpVars, echoVars>>

\* The frame lengths a peer cuts its stream into: one byte, a full frame, or
\* all that is left.
PeerCuts == {"one", "full", "rest"}

RecordsOf(s) == SelectSeq(records, LAMBDA r : r.s = s)

\* A peer sends the next frame of its stream, of a length it chooses, or the
\* empty frame that ends the stream.
PeerSends(cut) ==
    /\ streams # <<>> /\ streams[CurrentStream].by = "peer"
    /\ chunker.some
    /\ IF chunker.len = 0
       THEN /\ cut = "rest"
            /\ chunker' = NoStream
            /\ records' = Append(records, [s |-> CurrentStream, off |-> chunker.off,
                                           len |-> 0])
       ELSE LET k == IF cut = "one" THEN 1
                     ELSE IF cut = "full" THEN EncodeLimit ELSE chunker.len IN
            /\ k <= chunker.len /\ k <= EncodeLimit
            /\ Len(RecordsOf(CurrentStream)) < MaxRecords - 1 \/ k = chunker.len
            /\ chunker' = [chunker EXCEPT !.off = @ + k, !.len = @ - k]
            /\ records' = Append(records, [s |-> CurrentStream, off |-> chunker.off,
                                           len |-> k])
    /\ UNCHANGED <<streams, taken, defrag, results>>
    /\ UNCHANGED <<muxVars, connVars, codecVars, nvpVars, echoVars>>

\* Defrag::insert_payload
DefragInsertPayload(d, payload) ==
    LET new_size == d.current_total_payload + payload.len IN
    IF MaxTotalPayload < new_size
    THEN [ok |-> FALSE, defrag |-> d]
    ELSE [ok |-> TRUE,
          defrag |-> [payloads |-> Append(d.payloads, payload),
                      current_total_payload |-> new_size]]

\* buffer.put(payload) for each payload in order: the bytes of the payloads
\* one after another, neighbouring ranges of one stream written as one range.
RECURSIVE Concat(_)
Concat(ps) ==
    IF Len(ps) <= 1 THEN ps
    ELSE LET rest == Concat(Tail(ps))
             a == Head(ps)
             b == Head(rest)
         IN IF a.s = b.s /\ a.off + a.len = b.off
            THEN <<[a EXCEPT !.len = a.len + b.len]>> \o Tail(rest)
            ELSE <<a>> \o rest

\* Defrag::handle_end_of_stream: None when no payload was inserted, else the
\* payloads drained into one buffer. current_total_payload is left as it is.
HandleEndOfStream(d) ==
    IF d.payloads = <<>>
    THEN [value |-> "None", bytes |-> <<>>, defrag |-> d]
    ELSE [value |-> "Some", bytes |-> Concat(d.payloads),
          defrag |-> [d EXCEPT !.payloads = <<>>]]

StreamFailed == \E k \in 1..Len(results) : results[k].value = "MaximumStreamSizeExceeded"

\* The receiver reads the next record: a payload goes into the Defrag, the
\* empty record ends the stream.
DefragTakes ==
    /\ taken < Len(records)
    /\ ~StreamFailed
    /\ taken' = taken + 1
    /\ LET r == records[taken + 1] IN
       IF r.len = 0
       THEN LET e == HandleEndOfStream(defrag) IN
            /\ defrag' = e.defrag
            /\ results' = Append(results, [s |-> r.s, value |-> e.value,
                                            bytes |-> e.bytes])
       ELSE LET i == DefragInsertPayload(defrag, r) IN
            /\ defrag' = i.defrag
            /\ results' = IF i.ok THEN results
                          ELSE Append(results, [s |-> r.s,
                                                value |-> "MaximumStreamSizeExceeded",
                                                bytes |-> <<>>])
    /\ UNCHANGED <<streams, chunker, records>>
    /\ UNCHANGED <<muxVars, connVars, codecVars, nvpVars, echoVars>>

\* The next stream is given to the sender (IntoStreamChunker, ByteSlice).
BeginStream(n, by) ==
    /\ Len(streams) < MaxStreams
    /\ ~chunker.some
    /\ taken = Len(records)
    /\ ~StreamFailed
    /\ streams' = Append(streams, [n |-> n, by |-> by])
    /\ chunker' = [off |-> 0, len |-> n, some |-> TRUE]
    /\ UNCHANGED <<records, taken, defrag, results>>
    /\ UNCHANGED <<muxVars, connVars, codecVars, nvpVars, echoVars>>

ChunkInit ==
    /\ MuxInit(FALSE)
    /\ endpoint = "none"
    /\ variant = "none"
    /\ cstate = NewParser
    /\ sstate = NewRequestParser
    /\ fed = <<>>
    /\ ChunkIdle
    /\ CodecIdle
    /\ NvpIdle
    /\ EchoIdle

ChunkNext ==
    \/ \E n \in StreamSizes : \E by \in {"chunker", "peer"} : BeginStream(n, by)
    \/ SendStream
    \/ \E cut \in PeerCuts : PeerSends(cut)
    \/ DefragTakes

ChunkSpec == ChunkInit /\ [][ChunkNext]_vars

\* ------------------------------------------------------- the frame codec
\* A buffer is a sequence of pieces: bytes written one by one (a header),
\* a run of zero bytes (padding), or a range of the body of a record.
HEADER_SIZE == 8
FCGI_VERSION_1 == 1

Lit(bs) == [k |-> "lit", bytes |-> bs, r |-> 0, off |-> 0, len |-> Len(bs)]
Zeros(n) == [k |-> "zero", bytes |-> <<>>, r |-> 0, off |-> 0, len |-> n]
Body(r, off, n) == [k |-> "body", bytes |-> <<>>, r |-> r, off |-> off, len |-> n]

\* The value of a byte of a body.
BodyByte == 170

\* Buf::remaining, BytesMut::len
RECURSIVE BufLen(_)
BufLen(b) == IF b = <<>> THEN 0 ELSE Head(b).len + BufLen(Tail(b))

PieceTake(p, n) ==
    IF p.k = "lit" THEN Lit(SubSeq(p.bytes, 1, n)) ELSE [p EXCEPT !.len = n]

PieceDrop(p, n) ==
    IF p.k = "lit" THEN Lit(SubSeq(p.bytes, n + 1, p.len))
    ELSE IF p.k = "body" THEN [p EXCEPT !.off = @ + n, !.len = @ - n]
    ELSE [p EXCEPT !.len = @ - n]

\* BytesMut::split_to(n): the first n bytes.
RECURSIVE SplitTo(_, _)
SplitTo(b, n) ==
    IF n = 0 \/ b = <<>> THEN <<>>
    ELSE IF Head(b).len <= n THEN <<Head(b)>> \o SplitTo(Tail(b), n - Head(b).len)
    ELSE <<PieceTake(Head(b), n)>>

\* Buf::advance(n): what is left after the first n bytes.
RECURSIVE Advance(_, _)
Advance(b, n) ==
    IF n = 0 \/ b = <<>> THEN b
    ELSE IF Head(b).len <= n THEN Advance(Tail(b), n - Head(b).len)
    ELSE <<PieceDrop(Head(b), n)>> \o Tail(b)

\* src[i - 1]
RECURSIVE ByteAt(_, _)
ByteAt(b, i) ==
    IF i <= Head(b).len
    THEN IF Head(b).k = "lit" THEN Head(b).bytes[i]
         ELSE IF Head(b).k = "zero" THEN 0 ELSE BodyByte
    ELSE ByteAt(Tail(b), i - Head(b).len)

\* The same bytes with neighbouring pieces of one kind written as one piece:
\* a BytesMut is one contiguous range whatever the writes that filled it.
RECURSIVE Join(_)
Join(b) ==
    IF Len(b) <= 1 THEN b
    ELSE LET rest == Join(Tail(b))
             x == Head(b)
             y == Head(rest)
         IN IF x.k = "lit" /\ y.k = "lit"
            THEN <<Lit(x.bytes \o y.bytes)>> \o Tail(rest)
            ELSE IF x.k = "zero" /\ y.k = "zero"
            THEN <<Zeros(x.len + y.len)>> \o Tail(rest)
            ELSE IF x.k = "body" /\ y.k = "body" /\ x.r = y.r /\ x.off + x.len = y.off
            THEN <<Body(x.r, x.off, x.len + y.len)>> \o Tail(rest)
            ELSE <<x>> \o rest

\* The padding policies of a header: Option<Padding>.
Paddings ==
    {[k |-> "None", n |-> 0], [k |-> "Automatic", n |-> 0],
     [k |-> "Static", n |-> 3], [k |-> "Adaptive", n |-> 0]}

\* The fn(u16) -> u8 given to Padding::Adaptive.
AdaptiveFn(n) == n % 256

\* Padding::pad_to_multiple_of_8
PadToMultipleOf8(n) == ((((n + 7) \div 8) * 8) - n) % 256

\* header.padding.map_or(0, |padding| padding.into_u8(content_length))
IntoU8(padding, content_length) ==
    CASE padding.k = "None" -> 0
      [] padding.k = "Automatic" ->
            IF content_length = 0 THEN 0 ELSE PadToMultipleOf8(content_length)
      [] padding.k = "Adaptive" -> AdaptiveFn(content_length)
      [] OTHER -> padding.n

\* Header::encode
HeaderEncode(h, content_length, padding_length) ==
    Lit(<<FCGI_VERSION_1, h.record_type, h.id \div 256, h.id % 256,
          content_length \div 256, content_length % 256, padding_length, 0>>)

\* The records encoded: ids, record types (Stdout, GetValuesResult, a
\* management type above 11), body lengths and padding policies.
RecordIds == {1, 258}
RecordTypes == {6, 10, 12}
BodyLens == {0, 5, 65535}

\* Encoder::encode of protocol/transport: the header, the body, the padding.
Encode(h, n) ==
    /\ Len(encoded) < MaxEncoded
    /\ codec.which # "none"
    /\ LET content_length == n % 65536
           padding_length == IntoU8(h.padding, content_length)
           r == Len(encoded) + 1
       IN /\ dst' = Join(dst \o <<HeaderEncode(h, content_length, padding_length)>>
                            \o (IF n = 0 THEN <<>> ELSE <<Body(r, 0, n)>>)
                            \o (IF padding_length = 0 THEN <<>>
                                ELSE <<Zeros(padding_length)>>))
          /\ encoded' = Append(encoded,
                [raw |-> FALSE, version |-> FCGI_VERSION_1, reserved |-> 0,
                 id |-> h.id, record_type |-> h.record_type, len |-> n,
                 padding |-> h.padding])
    /\ UNCHANGED <<src, codec, frames>>
    /\ UNCHANGED <<muxVars, connVars, chunkVars, nvpVars, echoVars>>

\* A peer writes eight bytes of its own as a header, with no body.
PeerWritesHeader(version, reserved) ==
    /\ Len(encoded) < MaxEncoded
    /\ codec.which # "none"
    /\ dst' = Join(dst \o <<Lit(<<version, 6, 0, 1, 0, 0, 0, reserved>>)>>)
    /\ encoded' = Append(encoded,
            [raw |-> TRUE, version |-> version, reserved |-> reserved,
             id |-> 1, record_type |-> 6, len |-> 0, padding |-> [k |-> "None", n |-> 0]])
    /\ UNCHANGED <<src, codec, frames>>
    /\ UNCHANGED <<muxVars, connVars, chunkVars, nvpVars, echoVars>>

\* How many bytes one read of the transport brings: a few, a header's worth,
\* all but the last, or all there are.
ReadSizes == {"few", "header", "short", "all"}

\* Framed reads bytes of the transport into its read buffer.
Read(size) ==
    /\ dst # <<>>
    /\ LET n == CASE size = "few" -> 3
                  [] size = "header" -> HEADER_SIZE
                  [] size = "short" -> BufLen(dst) - 1
                  [] OTHER -> BufLen(dst) IN
       /\ 1 <= n /\ n <= BufLen(dst)
       /\ size \in {"few", "header"} => BufLen(src) < HEADER_SIZE
       /\ src' = Join(src \o SplitTo(dst, n))
       /\ dst' = Advance(dst, n)
    /\ UNCHANGED <<encoded, codec, frames>>
    /\ UNCHANGED <<muxVars, connVars, chunkVars, nvpVars, echoVars>>

\* RecordType::from(u8), or -1 where it panics. protocol/record/types.rs:
\* 1..=8 are application types and the rest goes to ManagementRecordType::new,
\* which asserts n > 11. types.rs: 1..=11 are standard types and the rest
\* goes to Custom::new, which asserts n > 11.
RecordTypeFrom(which, b) ==
    IF which = "protocol"
    THEN IF b \in 1..8 \/ b > 11 THEN b ELSE -1
    ELSE IF b \in 1..11 \/ b > 11 THEN b ELSE -1

\* A header decoder that does not look at the reserved byte.
HeaderErrorNoReserved(version, reserved) ==
    IF version # FCGI_VERSION_1 THEN "IncompatibleVersion" ELSE "None"

\* Header::decode of protocol/record/header.rs: the reserved byte is looked
\* at first.
HeaderError(version, reserved) ==
    IF reserved # 0 THEN "CorruptedHeader"
    ELSE IF version # FCGI_VERSION_1 THEN "IncompatibleVersion"
    ELSE "None"

\* decode_header of codec/codec.rs: the version byte is looked at first.
DecodeHeaderError(version, reserved) ==
    IF version # FCGI_VERSION_1 THEN "IncompatibleVersion"
    ELSE IF reserved # 0 THEN "CorruptedHeader"
    ELSE "None"

NoOut == [kind |-> "None", id |-> 0, record_type |-> 0, payload |-> <<>>, err |-> "None"]

\* A consume_padding that takes what padding there is and goes on.
ConsumePaddingThere(n, buf) ==
    [some |-> TRUE, src |-> Advance(buf, n)]

\* consume_padding: None, and nothing consumed, while the buffer holds less
\* than the n bytes.
ConsumePadding(n, buf) ==
    IF BufLen(buf) < n THEN [some |-> FALSE, src |-> buf]
    ELSE [some |-> TRUE, src |-> Advance(buf, n)]

\* Decoder::decode: the codec and the buffer after the call, and what the
\* call returned (a frame, an error, a panic, or Ok(None)).
Decode(c, buf) ==
    LET padded == c.state = "Padding"
        short == padded /\ ~ConsumePadding(c.skip, buf).some
        b1 == IF padded /\ ~short THEN ConsumePadding(c.skip, buf).src ELSE buf
        c1 == IF padded /\ ~short THEN [c EXCEPT !.state = "Header", !.skip = 0] ELSE c
    IN
    IF short THEN [codec |-> c, src |-> buf, out |-> NoOut]
    ELSE IF c1.state = "Header" /\ BufLen(b1) < HEADER_SIZE
    THEN [codec |-> c1, src |-> b1, out |-> NoOut]
    ELSE LET fresh == c1.state = "Header"
             err == IF ~fresh THEN "None"
                    ELSE IF c.which = "protocol"
                    THEN HeaderError(ByteAt(b1, 1), ByteAt(b1, 8))
                    ELSE DecodeHeaderError(ByteAt(b1, 1), ByteAt(b1, 8))
             rt == IF fresh THEN RecordTypeFrom(c.which, ByteAt(b1, 2)) ELSE c1.record_type
         IN
         IF err # "None"
         THEN [codec |-> c1, src |-> b1, out |-> [NoOut EXCEPT !.kind = "Err", !.err = err]]
         ELSE IF rt = -1
         THEN [codec |-> c1, src |-> b1, out |-> [NoOut EXCEPT !.kind = "Panic"]]
         ELSE LET c2 == IF fresh
                        THEN [c1 EXCEPT !.state = "Payload",
                                        !.id = ByteAt(b1, 3) * 256 + ByteAt(b1, 4),
                                        !.record_type = rt,
                                        !.content_length =
                                            ByteAt(b1, 5) * 256 + ByteAt(b1, 6),
                                        !.skip = ByteAt(b1, 7)]
                        ELSE c1
                  b2 == IF fresh THEN Advance(b1, HEADER_SIZE) ELSE b1
              IN IF BufLen(b2) < c2.content_length
                 THEN [codec |-> c2, src |-> b2, out |-> NoOut]
                 ELSE [codec |-> [c2 EXCEPT !.state = IF c2.skip > 0 THEN "Padding"
                                                     ELSE "Header"],
                       src |-> Advance(b2, c2.content_length),
                       out |-> [NoOut EXCEPT !.kind = "Frame", !.id = c2.id,
                                             !.record_type = c2.record_type,
                                             !.payload =
                                                SplitTo(b2, c2.content_length)]]

\* Framed calls Decoder::decode on its read buffer.
DecoderDecode ==
    /\ codec.which # "none"
    /\ frames # <<>> => frames[Len(frames)].kind = "Frame"
    /\ LET d == Decode(codec, src) IN
       /\ codec' = d.codec
       /\ src' = d.src
       /\ frames' = IF d.out.kind = "None" THEN frames ELSE Append(frames, d.out)
    /\ UNCHANGED <<encoded, dst>>
    /\ UNCHANGED <<muxVars, connVars, chunkVars, nvpVars, echoVars>>

CodecInit ==
    /\ MuxInit(FALSE)
    /\ endpoint = "none"
    /\ variant = "none"
    /\ cstate = NewParser
    /\ sstate = NewRequestParser
    /\ fed = <<>>
    /\ ChunkIdle
    /\ encoded = <<>>
    /\ dst = <<>>
    /\ src = <<>>
    /\ codec \in {NewCodec("protocol"), NewCodec("codec")}
    /\ frames = <<>>
    /\ NvpIdle
    /\ EchoIdle

CodecNext ==
    \/ \E i \in RecordIds : \E t \in RecordTypes : \E n \in BodyLens : \E p \in Paddings :
            Encode([id |-> i, record_type |-> t, padding |-> p], n)
    \/ \E version \in {0, 1, 2} : \E reserved \in {0, 1} : PeerWritesHeader(version, reserved)
    \/ \E size \in ReadSizes : Read(size)
    \/ DecoderDecode

CodecSpec == CodecInit /\ [][CodecNext]_vars

\* ------------------------------------------------------ name-value pairs
\* The lengths of the names and values of the pairs made.
NameLens == {0, 1, 127, 128, 300, 65531, 16777216}
ValueLens == {0, 1, 127, 128, 16777216}
LiteralLens == {0, 1, 200}

\* The bytes of the name and of the value of the k-th pair.
NameBytes(k, n) == IF n = 0 THEN <<>> ELSE <<Body(2 * k - 1, 0, n)>>
ValueBytes(k, n) == IF n = 0 THEN <<>> ELSE <<Body(2 * k, 0, n)>>

NoParam == [tag |-> "None", bytes |-> <<>>]

\* Param::new, From<Bytes> for Param
ParamNew(bytes) ==
    [tag |-> IF BufLen(bytes) > 127 THEN "Long" ELSE "Short", bytes |-> bytes]

\* Param::validate, on the length of the bytes
Validate(n) == ~(n = 0 \/ n > 2147483647)

\* NameValuePair::new_unchecked
NewUnchecked(by, name, value, some) ==
    [by |-> by, name |-> ParamNew(name),
     value |-> IF some THEN ParamNew(value) ELSE NoParam]

\* A mistaken encode_length: the four bytes of the length as they are.
EncodeLengthPlain(p) ==
    LET n == BufLen(p.bytes) IN
    IF p.tag = "Short" THEN Lit(<<n % 256>>)
    ELSE Lit(<<(n \div 16777216) % 256, (n \div 65536) % 256,
               (n \div 256) % 256, n % 256>>)

\* Param::encode_length: put_u8(len as u8) for Short and
\* put_u32(len as u32 | 0x80000000) for Long.
EncodeLength(p) ==
    LET n == BufLen(p.bytes) IN
    IF p.tag = "Short" THEN Lit(<<n % 256>>)
    ELSE Lit(<<128 + ((n \div 16777216) % 128), (n \div 65536) % 256,
               (n \div 256) % 256, n % 256>>)

\* Param::decode_length
DecodeLength(buf) ==
    IF buf = <<>> THEN [some |-> FALSE, len |-> 0, rest |-> buf]
    ELSE LET b0 == ByteAt(buf, 1) IN
         IF b0 >= 128
         THEN IF BufLen(buf) < 4 THEN [some |-> FALSE, len |-> 0, rest |-> buf]
              ELSE [some |-> TRUE,
                    len |-> (b0 % 128) * 16777216 + ByteAt(buf, 2) * 65536
                            + ByteAt(buf, 3) * 256 + ByteAt(buf, 4),
                    rest |-> Advance(buf, 4)]
         ELSE [some |-> TRUE, len |-> b0, rest |-> Advance(buf, 1)]

\* NameValuePair::encode: the bytes it puts.
PairBytes(pair) ==
    <<EncodeLength(pair.name)>>
    \o <<IF pair.value.tag = "None" THEN Lit(<<0>>) ELSE EncodeLength(pair.value)>>
    \o pair.name.bytes \o pair.value.bytes

\* A pair is made and encoded at the end of the buffer.
PairEncode(pair) ==
    /\ Len(nvps) < MaxPairs
    /\ chunks = <<>>
    /\ nvps' = Append(nvps, pair)
    /\ nvbuf' = Join(nvbuf \o PairBytes(pair))
    /\ UNCHANGED <<decoded, chunks>>
    /\ UNCHANGED <<muxVars, connVars, chunkVars, codecVars, echoVars>>

\* NameValuePair::new(name, value).unwrap().encode(dst)
EncodeNew(n, v) ==
    /\ Validate(n) /\ Validate(v)
    /\ LET k == Len(nvps) + 1 IN
       PairEncode(NewUnchecked("new", NameBytes(k, n), ValueBytes(k, v), TRUE))

\* NameValuePair::new_empty(name).unwrap().encode(dst)
EncodeNewEmpty(n) ==
    /\ Validate(n)
    /\ LET k == Len(nvps) + 1 IN
       PairEncode(NewUnchecked("new_empty", NameBytes(k, n), <<>>, FALSE))

\* NameValuePair::new_unchecked(name, value).encode(dst)
EncodeNewUnchecked(n, v, some) ==
    /\ some \/ v = 0
    /\ LET k == Len(nvps) + 1 IN
       PairEncode(NewUnchecked("new_unchecked", NameBytes(k, n), ValueBytes(k, v), some))

\* NameValuePair { name, value }.encode(dst), the fields and the variants of
\* Param being public.
EncodeLiteral(ntag, n, vtag, v) ==
    /\ vtag # "None" \/ v = 0
    /\ LET k == Len(nvps) + 1 IN
       PairEncode([by |-> "literal",
                   name |-> [tag |-> ntag, bytes |-> NameBytes(k, n)],
                   value |-> [tag |-> vtag, bytes |-> ValueBytes(k, v)]])

NoPair == [by |-> "decode", name |-> NoParam, value |-> NoParam]

\* NameValuePair::decode: the pair or CorruptedFrame, and the buffer after it.
PairDecode(buf) ==
    LET nl == DecodeLength(buf)
        vl == DecodeLength(nl.rest)
        r == vl.rest
    IN
    IF ~nl.some THEN [ok |-> FALSE, pair |-> NoPair, rest |-> nl.rest]
    ELSE IF nl.len = 0 THEN [ok |-> FALSE, pair |-> NoPair, rest |-> nl.rest]
    ELSE IF ~vl.some THEN [ok |-> FALSE, pair |-> NoPair, rest |-> r]
    ELSE IF BufLen(r) < nl.len THEN [ok |-> FALSE, pair |-> NoPair, rest |-> r]
    ELSE IF BufLen(r) - nl.len < vl.len THEN [ok |-> FALSE, pair |-> NoPair, rest |-> r]
    ELSE [ok |-> TRUE,
          pair |-> [by |-> "decode",
                    name |-> ParamNew(SplitTo(r, nl.len)),
                    value |-> IF vl.len > 0
                              THEN ParamNew(SplitTo(Advance(r, nl.len), vl.len))
                              ELSE NoParam],
          rest |-> Advance(Advance(r, nl.len), vl.len)]

\* The next pair is decoded from the front of the buffer.
NvpDecode ==
    /\ nvbuf # <<>>
    /\ chunks = <<>>
    /\ decoded # <<>> => decoded[Len(decoded)].ok
    /\ LET d == PairDecode(nvbuf) IN
       /\ decoded' = Append(decoded, [ok |-> d.ok, pair |-> d.pair])
       /\ nvbuf' = d.rest
    /\ UNCHANGED <<nvps, chunks>>
    /\ UNCHANGED <<muxVars, connVars, chunkVars, codecVars, echoVars>>

\* The remaining capacity of the buffer a chunk is written to: the 65535 of
\* the senders' buf.limit(u16::MAX), and a few bytes.
ChunkCaps == {2, 3, 4, 5, 65535}

\* NameValuePair::size_hint, Param::size_hint: nothing for a value that is None.
SizeHint(pair) ==
    LET hint(p) == IF p.tag = "None" THEN 0
                   ELSE (IF p.tag = "Short" THEN 1 ELSE 4) + BufLen(p.bytes)
    IN hint(pair.name) + hint(pair.value)

\* Iterator::position in encode_chunk: the pairs before the first whose hint,
\* added to the hints before it, is more than the buffer has left.
RECURSIVE Position(_, _, _)
Position(inner, size, remaining) ==
    IF inner = <<>> THEN 0
    ELSE IF size + SizeHint(Head(inner)) <= remaining
    THEN 1 + Position(Tail(inner), size + SizeHint(Head(inner)), remaining)
    ELSE 0

\* put_u8, put_u32 and put on an EncodeBuffer (Limit<&mut BytesMut>), one
\* after the other: a put of more bytes than are left panics.
RECURSIVE PutAll(_, _)
PutAll(pieces, remaining) ==
    IF pieces = <<>> THEN [panic |-> FALSE, bytes |-> <<>>]
    ELSE IF Head(pieces).len > remaining THEN [panic |-> TRUE, bytes |-> <<>>]
    ELSE LET rest == PutAll(Tail(pieces), remaining - Head(pieces).len) IN
         [panic |-> rest.panic, bytes |-> <<Head(pieces)>> \o rest.bytes]

\* The loop over the drained pairs: NameValuePair::encode on each, with its
\* test of remaining_mut against size_hint.
RECURSIVE EncodeDrained(_, _)
EncodeDrained(drain, remaining) ==
    IF drain = <<>> THEN [result |-> "Ok", bytes |-> <<>>]
    ELSE IF remaining < SizeHint(Head(drain))
    THEN [result |-> "InsufficientSizeInBuffer", bytes |-> <<>>]
    ELSE LET put == PutAll(PairBytes(Head(drain)), remaining) IN
         IF put.panic THEN [result |-> "Panic", bytes |-> put.bytes]
         ELSE LET rest == EncodeDrained(Tail(drain), remaining - BufLen(put.bytes)) IN
              [result |-> rest.result, bytes |-> put.bytes \o rest.bytes]

\* NameValuePairs::encode_chunk: what it returned, the bytes it put, and the
\* pairs left in inner.
EncodeChunk(inner, remaining) ==
    IF inner = <<>> THEN [result |-> "None", bytes |-> <<>>, inner |-> inner]
    ELSE IF SizeHint(inner[1]) > remaining
    THEN [result |-> "InsufficientSizeInBuffer", bytes |-> <<>>, inner |-> inner]
    ELSE LET index == Position(inner, 0, remaining)
             e == EncodeDrained(SubSeq(inner, 1, index), remaining)
         IN [result |-> e.result, bytes |-> e.bytes,
             inner |-> SubSeq(inner, index + 1, Len(inner))]

\* The pairs made are moved into a NameValuePairs (insert_nvp) and a chunk of
\* it is written to a buffer with cap bytes left; the next call goes on with
\* the pairs the last one left.  The pairs are chunked or decoded, not both.
NvpEncodeChunk(cap) ==
    /\ Len(chunks) < MaxChunkCalls
    /\ decoded = <<>>
    /\ chunks # <<>> => chunks[Len(chunks)].result = "Ok"
    /\ LET inner == IF chunks = <<>> THEN nvps ELSE chunks[Len(chunks)].inner
           c == EncodeChunk(inner, cap)
       IN chunks' = Append(chunks, [from |-> inner, cap |-> cap, result |-> c.result,
                                    bytes |-> c.bytes, inner |-> c.inner])
    /\ UNCHANGED <<nvps, nvbuf, decoded>>
    /\ UNCHANGED <<muxVars, connVars, chunkVars, codecVars, echoVars>>

NvpInit ==
    /\ MuxInit(FALSE)
    /\ endpoint = "none"
    /\ variant = "none"
    /\ cstate = NewParser
    /\ sstate = NewRequestParser
    /\ fed = <<>>
    /\ PureIdle

NvpNext ==
    \/ \E n \in NameLens : \E v \in ValueLens : EncodeNew(n, v)
    \/ \E n \in NameLens : EncodeNewEmpty(n)
    \/ \E n \in NameLens : \E v \in ValueLens : \E some \in BOOLEAN :
            EncodeNewUnchecked(n, v, some)
    \/ \E ntag \in {"Short", "Long"} : \E vtag \in {"None", "Short", "Long"} :
       \E n \in LiteralLens : \E v \in LiteralLens :
            EncodeLiteral(ntag, n, vtag, v)
    \/ NvpDecode
    \/ \E cap \in ChunkCaps : NvpEncodeChunk(cap)

NvpSpec == NvpInit /\ [][NvpNext]_vars

\* ------------------------------------- a request and its response, simplex
\* The body of a stream is a sequence of payloads, one to a frame; the
\* empty sequence is None (no stdin, no stdout, no stderr).
EchoFrame(t, payload, app_status) ==
    [id |-> 1, type |-> t, payload |-> payload, app_status |-> app_status]

\* Connection::feed_stream (a frame for each chunk, then EndOfStream), and
\* Connection::feed_empty for a body that is None.
FeedStream(t, body) ==
    [k \in 1..Len(body) |-> EchoFrame(t, body[k], 0)] \o <<EchoFrame(t, "", 0)>>

\* The requests a client sends.
Requests ==
    {[role |-> role, params |-> ps, stdin |-> si, data |-> IF role = "Filter" THEN d ELSE <<>>] :
        role \in {"Responder", "Filter"},
        ps \in {<<>>, <<"p1">>, <<"p1", "p2">>},
        si \in {<<>>, <<"s1">>, <<"s1", "s2">>},
        d \in {<<"d1">>, <<"d1", "d2">>}}

\* Request::send, Request::send_inner: the frames fed and flushed.
RequestSend(req) ==
    /\ sentRequest = NoneRequest
    /\ endpoint = "pair"
    /\ sentRequest' = req
    /\ c2s' = c2s \o <<EchoFrame("BeginRequest", req.role, 0)>>
                \o FeedStream("Params", req.params)
                \o FeedStream("Stdin", req.stdin)
                \o (IF req.role = "Filter" THEN FeedStream("Data", req.data)
                                          ELSE <<>>)
    /\ UNCHANGED <<spayloads, received, sentResponse, s2c, cpayloads, response>>
    /\ UNCHANGED <<muxVars, connVars, chunkVars, codecVars, nvpVars>>

\* Request::recv takes the next frame: poll_frame parses it with the server's
\* State, and the part it yields, if any, is the one recv waits for.
RequestRecv ==
    /\ c2s # <<>>
    /\ received.res = "none"
    /\ LET frame == Head(c2s)
           r == RequestParse("conn", sstate, RequestTransitionParse(frame))
           have == received.got
       IN /\ c2s' = Tail(c2s)
          /\ sstate' = r.parser
          /\ spayloads' = IF ~r.ok THEN spayloads
                          ELSE IF r.part = "None" THEN Append(spayloads, frame.payload)
                          ELSE <<>>
          /\ received' =
                IF ~r.ok THEN [received EXCEPT !.res = "Err", !.err = r.err]
                ELSE CASE r.part = "None" -> received
                       [] r.part = "BeginRequest" ->
                            [received EXCEPT !.got = [have EXCEPT !.role = frame.payload]]
                       [] r.part = "Params" ->
                            [received EXCEPT !.got = [have EXCEPT !.params = spayloads]]
                       [] r.part = "Stdin" ->
                            [received EXCEPT !.got = [have EXCEPT !.stdin = spayloads],
                                             !.res = IF have.role = "Filter" THEN "none"
                                                     ELSE "Ok"]
                       [] r.part = "Data" ->
                            [received EXCEPT !.got = [have EXCEPT !.data = spayloads],
                                             !.res = "Ok"]
                       [] OTHER -> [received EXCEPT !.res = "Aborted"]
    /\ UNCHANGED <<sentRequest, sentResponse, s2c, cpayloads, response>>
    /\ UNCHANGED <<muxVars, endpoint, variant, cstate, fed, chunkVars, codecVars, nvpVars>>

\* The responses a handler gives to a request it received.
Responses ==
    {[some |-> TRUE, stdout |-> o, stderr |-> e, app_status |-> a] :
        o \in {<<>>, <<"o1">>, <<"o1", "o2">>},
        e \in {<<>>, <<"e1">>},
        a \in {0, 3}}

\* echo_data_over_stdout of tests/echo.rs
EchoDataOverStdout ==
    IF received.res = "Ok"
    THEN [some |-> TRUE, stdout |-> received.got.data, stderr |-> <<>>, app_status |-> 0]
    ELSE [some |-> TRUE, stdout |-> <<>>, stderr |-> <<"e1">>, app_status |-> 500]

\* The handler is called with what Request::recv returned and its Response
\* is sent by Response::send: the frames fed and flushed.
ResponseSend(res) ==
    /\ received.res \in {"Ok", "Err"}
    /\ ~sentResponse.some
    /\ received.res = "Err" => res = EchoDataOverStdout
    /\ sentResponse' = res
    /\ s2c' = s2c \o FeedStream("Stdout", res.stdout)
                \o FeedStream("Stderr", res.stderr)
                \o <<EchoFrame("EndRequest", "RequestComplete", res.app_status)>>
    /\ UNCHANGED <<sentRequest, c2s, spayloads, received, cpayloads, response>>
    /\ UNCHANGED <<muxVars, connVars, chunkVars, codecVars, nvpVars>>

\* Response::recv takes the next frame: poll_frame parses it with the
\* client's State; Stdout(Some) and Stderr(Some) go to the builder, the
\* EndRequest builds the Response.
ResponseRecv ==
    /\ s2c # <<>>
    /\ response.res = "none"
    /\ LET frame == Head(s2c)
           r == ResponseParse(cstate, frame)
           have == response.got
       IN /\ s2c' = Tail(s2c)
          /\ cstate' = r.parser
          /\ cpayloads' =
                IF ~r.ok THEN cpayloads
                ELSE IF r.part = "None"
                THEN [cpayloads EXCEPT ![frame.type] = Append(@, frame.payload)]
                ELSE IF r.part \in {"Stdout", "Stderr"}
                THEN [cpayloads EXCEPT ![r.part] = <<>>]
                ELSE cpayloads
          /\ response' =
                IF ~r.ok THEN [response EXCEPT !.res = "Err", !.err = r.err]
                ELSE CASE r.part = "None" -> response
                       [] r.part = "Stdout" ->
                            [response EXCEPT !.got = [have EXCEPT !.stdout = cpayloads.Stdout]]
                       [] r.part = "Stderr" ->
                            [response EXCEPT !.got = [have EXCEPT !.stderr = cpayloads.Stderr]]
                       [] OTHER ->
                            IF frame.payload = "RequestComplete"
                            THEN [response EXCEPT
                                    !.got = [have EXCEPT !.some = TRUE,
                                                         !.app_status = frame.app_status],
                                    !.res = "Ok"]
                            ELSE [response EXCEPT !.res = "Err", !.err = frame.payload]
    /\ UNCHANGED <<sentRequest, c2s, spayloads, received, sentResponse>>
    /\ UNCHANGED <<muxVars, endpoint, variant, sstate, fed, chunkVars, codecVars, nvpVars>>

EchoInit ==
    /\ MuxInit(FALSE)
    /\ endpoint = "pair"
    /\ variant = "conn"
    /\ cstate = NewParser
    /\ sstate = NewRequestParser
    /\ fed = <<>>
    /\ PureIdle

EchoNext ==
    \/ \E req \in Requests : RequestSend(req)
    \/ RequestRecv
    \/ \E res \in Responses : ResponseSend(res)
    \/ ResponseSend(EchoDataOverStdout)
    \/ ResponseRecv

EchoSpec == EchoInit /\ [][EchoNext]_vars

\* ------------------------------------------------------------ properties
\* Nothing in the client can take a step: the dispatcher waits with no waker
\* fired, and no future and no cleanup task is scheduled.
Quiescent ==
    /\ pc = "idle" /\ ~DispatcherWoken
    /\ \A r \in Reqs :
          /\ st[r] = "pending" => ~Runnable(r)
          /\ st[r] # "start"
          /\ st[r] = "wait" => reply[r] = 0
          /\ cleanup[r] \notin {"abort", "close"}

\* The request's BeginRequest was handed to the record queue.
BeginSent(r) == id[r] > 0 /\ ~request[r].keep_conn

\* A request whose future is unresolved and whose EndRequest was not read.
Live(r) == st[r] = "pending" /\ r \notin ended

\* The frames of request r on the wire, in order, AbortRequest frames aside.
StreamFrames(r) ==
    IF id[r] = 0 THEN <<>>
    ELSE SelectSeq(wire[id[r]], LAMBDA f : f.req = r /\ f.type # "AbortRequest")

\* How many AbortRequest frames were written on behalf of request r.
AbortFrames(r) ==
    IF id[r] = 0 THEN 0
    ELSE Cardinality({k \in 1..Len(wire[id[r]]) :
                        /\ wire[id[r]][k].type = "AbortRequest"
                        /\ wire[id[r]][k].req = r})

\* How many empty frames of type t request r has on the wire.
Terminators(r, t) ==
    Cardinality({k \in 1..Len(StreamFrames(r)) :
                    StreamFrames(r)[k].type = t /\ StreamFrames(r)[k].payload = ""})

\* Request r has encoded all its streams and every record it queued was
\* written: its slot was registered all along and the queue holds none.
AllWritten(r) ==
    /\ st[r] = "pending" /\ pstate[r] = "ReceiveOnly" /\ RxOpen(r)
    /\ \A k \in 1..Len(appQ) : appQ[k].req # r

PhaseRank(t) ==
    CASE t = "Params" -> 1
      [] t = "Stdin" -> 2
      [] t = "Data" -> 3
      [] OTHER -> 0

\* BeginRequest first and only first; a frame of a phase comes after the
\* terminator of every earlier phase; no frame of a stream after its terminator.
PhaseOrder(s) ==
    /\ \A k \in 1..Len(s) : (s[k].type = "BeginRequest") <=> (k = 1)
    /\ \A k \in 2..Len(s) : \A ph \in 1..(PhaseRank(s[k].type) - 1) :
          \E j \in 2..(k - 1) : PhaseRank(s[j].type) = ph /\ s[j].payload = ""
    /\ \A j, k \in 2..Len(s) : j < k /\ s[j].type = s[k].type => s[j].payload # ""

\* The ids in the slot table are pairwise distinct, lie in 1..SlotLimit (never
\* the management id) and are at most SlotLimit many.
SlotTableWellFormed ==
    /\ \A e, f \in pending.occ : e.key = f.key => e = f
    /\ \A e \in pending.occ : e.key + 1 \in Ids /\ e.key + 1 # MANAGEMENT_ID
    /\ SlabLen(pending) <= SlotLimit

\* C1 (as stated): the slot table is well formed, and two requests that are
\* live at the same time never hold the same id.
C1_LiveRequestsHaveDistinctIds ==
    /\ SlotTableWellFormed
    /\ \A r, q \in Reqs : r # q /\ Live(r) /\ Live(q) => id[r] # id[q]

\* C2 (as stated): once the client has come to rest, a future dropped after
\* its BeginRequest was sent and before its EndRequest was read has exactly
\* one AbortRequest frame on the wire and no slot in the table.
C2_DroppedRequestIsAborted ==
    Quiescent =>
        \A r \in Reqs : st[r] = "dropped" /\ BeginSent(r) /\ r \notin ended
                          => AbortFrames(r) = 1 /\ ~RxOpen(r)

\* C3 (as stated): when the dispatcher has read a framing error, a read error
\* or the end of input from the transport with requests registered, it has
\* stopped.
C3_TransportFailureStopsDispatcher ==
    lastRecv.type \in {"Error", "Eof"} => DispatcherGone

\* C4 (as stated): once the client has come to rest, every call of send has
\* completed, with a Pending or with an IdAssignError; none is left suspended.
C4_EveryCallCompletes ==
    Quiescent => \A r \in Reqs : st[r] \notin {"start", "wait", "parked"}

\* C5 (as stated): once the client has come to rest, the slot of every request
\* that has ended (resolved, whatever the result, and cleaned up) is no longer
\* in the table.
C5_EndedRequestIsFreed ==
    Quiescent =>
        \A r \in Reqs : st[r] = "resolved" /\ id[r] > 0 => ~RxOpen(r)

\* C6: after the dispatcher has read an EndRequest frame for a registered id
\* and handed it to the request's inbound channel, the id is not in the slot
\* table, whether the channel took the frame or not.
C6_EndRequestFreesSlot ==
    lastRecv.type = "EndRequest" /\ lastRecv.registered
        => ~SlabContains(pending, lastRecv.id - 1)

\* An EndRequest was routed to a registered request whose channel refused it.
C6_Witness ==
    lastRecv.type = "EndRequest" /\ lastRecv.registered /\ ~lastRecv.accepted

\* The three conditions under which a resolved future asks for an abort.
AbortCondition(r) ==
    /\ outcome[r] # "Ok"
    /\ BeginSent(r)
    /\ outcome[r] \notin {"ProtocolStatusError", "ParseError.DecodeEndRequestError"}

\* The step is the cleanup task of request r ending.
CleanupEnds(r) == cleanup[r] \in {"abort", "close"} /\ cleanup'[r] # cleanup[r]

\* The step puts an Abort command for request r in the command queue.
EnqueuesAbort(r) ==
    cmdQ' = Append(cmdQ, [type |-> "Abort", req |-> r, id |-> id[r]])

\* C7 (as stated): the cleanup of a resolved future enqueues an Abort command
\* for its id if and only if it resolved with an error, its BeginRequest was
\* sent, and the error is neither a protocol-status error nor an EndRequest
\* decode error.
C7_AbortIffRequired ==
    [][\A r \in Reqs : CleanupEnds(r) => (EnqueuesAbort(r) <=> AbortCondition(r))]_vars

\* C7 (amended): the same, provided the command queue is still open when the
\* cleanup runs; with the dispatcher gone nothing is enqueued.
C7_AbortIffRequiredAndOpen ==
    [][\A r \in Reqs :
          CleanupEnds(r) =>
              /\ EnqueuesAbort(r) <=> (AbortCondition(r) /\ ~DispatcherGone)
              /\ ~EnqueuesAbort(r) => cmdQ' = cmdQ]_vars

\* A future expired after its BeginRequest was sent, and its cleanup has
\* enqueued the Abort command.
C7_Witness ==
    \E r \in Reqs : cleanup[r] = "sent" /\ outcome[r] = "Expired" /\ BeginSent(r)

\* C8: the frames put in a request's inbound channel are, in order, the first
\* frames read from the transport under its id since it was registered: the
\* k-th frame delivered is the k-th frame read.
C8_DeliveredIsPrefixOfRead ==
    \A r \in Reqs : \A k \in 1..Len(got[r]) : got[r][k] = k

\* A request got a frame, and a later frame read under its id was refused.
C8_Witness ==
    \E r \in Reqs : Len(got[r]) >= 1 /\ seen[r] > Len(got[r])

\* C9 (as stated): the frames written for one request appear in phase order:
\* BeginRequest, Params up to its terminator, Stdin up to its terminator, then
\* for a Filter Data up to its terminator; Data only for a Filter.
C9_FramesInPhaseOrder ==
    \A r \in Reqs :
        /\ PhaseOrder(StreamFrames(r))
        /\ \A k \in 1..Len(StreamFrames(r)) :
              StreamFrames(r)[k].type = "Data" => request[r].role = "Filter"

\* C10 (as stated): when a request has written all it sends, each of Params,
\* Stdin and, for a Filter, Data was ended on the wire by exactly one empty
\* frame of its type.
C10_EveryStreamTerminated ==
    \A r \in Reqs :
        AllWritten(r) =>
            /\ Terminators(r, "Params") = 1
            /\ Terminators(r, "Stdin") = 1
            /\ request[r].role = "Filter" => Terminators(r, "Data") = 1

\* C11: a frame whose request id is 0 is never put in a request's inbound
\* channel by the dispatcher, and never handed to a parser, neither by the
\* dispatcher (a Pending parses what its channel holds) nor by the simplex
\* connection.
C11_ManagementFrameNeverRouted ==
    /\ lastRecv.id = MANAGEMENT_ID => ~lastRecv.registered /\ ~lastRecv.accepted
    /\ \A r \in Reqs : \A k \in 1..Len(rx[r]) : rx[r][k].id # MANAGEMENT_ID
    /\ \A k \in 1..Len(fed) : fed[k].frame.id = MANAGEMENT_ID => ~fed[k].parsed

\* The dispatcher has read a frame with id 0 while a request was registered
\* and waiting for frames.
C11_Witness ==
    /\ lastRecv.id = MANAGEMENT_ID
    /\ \E r \in Reqs : RxOpen(r) /\ st[r] = "pending"

\* A frame read under the id of request r while it was registered was not
\* taken by its inbound channel.
Refused(r) == seen[r] > Len(got[r])

\* The step resolves the Pending of request r.
Resolves(r) == st[r] = "pending" /\ st'[r] = "resolved"

\* The dispatcher has removed the slot of the request whose channel did not
\* take the frame it routed last.
RefusedSlotRemoved ==
    lastRecv.registered /\ ~lastRecv.accepted
        => ~SlabContains(pending, lastRecv.id - 1)

\* C12 (as stated): a frame the channel of a request did not take removes the
\* request's slot, and the pending future then resolves with
\* RecvChannelClosedEarly.
C12_RefusedResolvesClosedEarly ==
    /\ []RefusedSlotRemoved
    /\ [][\A r \in Reqs :
            Refused(r) /\ Resolves(r) => outcome'[r] = "RecvChannelClosedEarly"]_vars

\* C12, the errors that can come first allowed for: the slot is removed; once
\* the client has come to rest the future is no longer pending; and it
\* resolves with RecvChannelClosedEarly unless its deadline has passed, the
\* dispatcher has stopped, or a frame left in its channel does not parse. It
\* never resolves with a response.
C12_RefusedResolvesWithError ==
    /\ []RefusedSlotRemoved
    /\ [](Quiescent => \A r \in Reqs : Refused(r) => st[r] # "pending")
    /\ [][\A r \in Reqs :
            Refused(r) /\ Resolves(r) =>
                \/ outcome'[r] = "RecvChannelClosedEarly"
                \/ outcome'[r] = "Expired" /\ expired[r]
                \/ outcome'[r] = "SenderError" /\ DispatcherGone
                \/ /\ outcome'[r] \in {"ParseError.InvalidState",
                                        "ParseError.MaximumStreamSizeExceeded"}
                   /\ rx[r] # <<>>]_vars

\* A request got a frame, a later one found its channel full, and its future
\* has resolved with RecvChannelClosedEarly.
C12_Witness ==
    \E r \in Reqs :
        Refused(r) /\ Len(got[r]) >= 1 /\ outcome[r] = "RecvChannelClosedEarly"

\* No request holds a sender of the record queue any more: every Pending
\* has sent its request or is gone, and the queue is drained.
AllFinishedSending ==
    /\ appQ = <<>>
    /\ \A r \in Reqs : st[r] = "pending" => pstate[r] = "ReceiveOnly"

\* C13 (as stated): when the loop of a poll of the dispatcher has ended with
\* every Client handle dropped and every request done sending, the dispatcher
\* has left Running (it closes the sink and only receives from then on).
C13_DroppedClientStopsSending ==
    ~clientAlive /\ pc = "recv" /\ AllFinishedSending => state # "Running"

\* C14 (as stated): once the client has come to rest, every request whose
\* deadline has passed has resolved with Expired and its cleanup has run.
C14_ExpiredRequestResolves ==
    Quiescent =>
        \A r \in Reqs :
            expired[r] => /\ st[r] = "resolved" /\ outcome[r] = "Expired"
                          /\ cleanup[r] \in {"sent", "closed", "failed"}


\* The newest frame written for id i.
LastWritten(i) == wire'[i][Len(wire'[i])]

Parsed == SelectSeq(fed, LAMBDA x : x.parsed)

OfType(seq, t) == SelectSeq(seq, LAMBDA x : x.frame.type = t)

\* How many parts of kind t the parser has emitted.
Parts(t) == Len(SelectSeq(fed, LAMBDA x : x.part = t))

\* A stream as the protocol sends it: frames with payload, within the
\* maximum stream size, ended by exactly one empty frame.
StreamLegal(seq) ==
    /\ seq # <<>>
    /\ seq[Len(seq)].frame.payload = ""
    /\ \A k \in 1..(Len(seq) - 1) : seq[k].frame.payload # ""
    /\ Len(seq) - 1 <= MaxStreamPayload

\* A legal response of one request: a stdout stream and, if the application
\* wrote to it, a stderr stream, interleaved in any way, then a well-formed
\* EndRequest.
LegalResponse ==
    /\ endpoint = "Client"
    /\ Parsed # <<>>
    /\ LET last == Parsed[Len(Parsed)].frame IN
       last.type = "EndRequest" /\ last.payload # "" /\ EndRequestDecodes(last.payload)
    /\ \A k \in 1..(Len(Parsed) - 1) : Parsed[k].frame.type \in {"Stdout", "Stderr"}
    /\ StreamLegal(OfType(Parsed, "Stdout"))
    /\ \A k \in 1..Len(Parsed) : Parsed[k].frame.type = "Stderr" =>
            StreamLegal(OfType(Parsed, "Stderr"))

\* C17 as stated: for every legal response frame sequence of one request the
\* client parser emits exactly one Stdout part, exactly one Stderr part and
\* exactly one EndRequest part, and is then in Finished.
C17_LegalResponseThreeParts ==
    LegalResponse =>
        /\ Parts("Stdout") = 1 /\ Parts("Stderr") = 1 /\ Parts("EndRequest") = 1
        /\ cstate.inner = "Finished"

\* C17, amended: for every legal response frame sequence of one request the
\* client parser returns no error, emits exactly one Stdout part, exactly one
\* EndRequest part, and one Stderr part if the sequence has a stderr frame
\* and none if it has not, and is then in Finished.
C17_LegalResponseParts ==
    LegalResponse =>
        /\ \A k \in 1..Len(fed) : fed[k].ok
        /\ Parts("Stdout") = 1 /\ Parts("EndRequest") = 1
        /\ Parts("Stderr") = IF OfType(Parsed, "Stderr") = <<>> THEN 0 ELSE 1
        /\ cstate.inner = "Finished"

\* A legal response with both streams, stderr starting before stdout ends.
C17_Witness ==
    /\ LegalResponse
    /\ \E j, k \in 1..Len(Parsed) :
          /\ j < k
          /\ Parsed[j].frame.type = "Stderr"
          /\ Parsed[k].frame.type = "Stdout"
          /\ Parsed[1].frame = Frame(1, "Stdout", "b")


\* The parts the parser has emitted, in order.
PartsEmitted ==
    LET some == SelectSeq(fed, LAMBDA x : x.part # "None")
    IN [k \in 1..Len(some) |-> some[k].part]

\* The server parser has reached Finished without ever returning an error.
FinishedWithoutError ==
    /\ endpoint = "Server"
    /\ sstate.inner = "Finished"
    /\ \A k \in 1..Len(fed) : fed[k].ok

\* C18: for every request frame sequence that the server parser processes
\* without returning an error up to Finished, it has emitted, in this order,
\* exactly one BeginRequest part, one Params part, one Stdin part, and one
\* Data part if and only if the role is Filter.
C18_RequestPartsInOrder ==
    FinishedWithoutError =>
        PartsEmitted = IF sstate.role = "Filter"
                       THEN <<"BeginRequest", "Params", "Stdin", "Data">>
                       ELSE <<"BeginRequest", "Params", "Stdin">>

\* A Filter request parsed to Finished.
C18_Witness ==
    /\ FinishedWithoutError
    /\ sstate.role = "Filter"
    /\ \E k \in 1..Len(fed) : fed[k].frame = Frame(1, "Data", "b")
    /\ \E k \in 1..Len(fed) : fed[k].frame = Frame(1, "Stdin", "")


\* The calls of the server parser on an empty AbortRequest frame.
AbortCalls ==
    {k \in 1..Len(fed) : /\ endpoint = "Server"
                         /\ fed[k].parsed
                         /\ fed[k].frame.type = "AbortRequest"
                         /\ fed[k].frame.payload = ""}

\* C19: an empty AbortRequest frame received while the server parser is in
\* Params, Stdin or Data moves it to Aborted and emits exactly one
\* AbortRequest part.
C19_AbortInStreamState ==
    \A k \in AbortCalls : fed[k].from \in StreamStates =>
        /\ fed[k].ok
        /\ fed[k].to = "Aborted"
        /\ fed[k].part = "AbortRequest"
        /\ \A j \in 1..(k - 1) : fed[j].part # "AbortRequest"

\* A Filter request aborted while its data stream was being read.
C19_Witness ==
    \E k \in AbortCalls : fed[k].from = "Data" /\ fed[k - 1].frame = Frame(1, "Data", "b")

\* C20: the server parser accepts an AbortRequest only in Params, Stdin or
\* Data: received in Finished, BeginRequest or Aborted it is the error
\* UnexpectedAbortRequest, the parser state is unchanged and no AbortRequest
\* part is emitted.
C20_AbortRefusedElsewhere ==
    \A k \in AbortCalls : fed[k].from \notin StreamStates =>
        /\ ~fed[k].ok
        /\ fed[k].err = "UnexpectedAbortRequest"
        /\ fed[k].to = fed[k].from
        /\ fed[k].part = "None"


\* ------------------------------------------------------------ the defragmenter
\* The calls of either parser that handed a frame's payload to a defragmenter:
\* the payload was taken in, or refused for its size.
InsertCalls ==
    {k \in 1..Len(fed) :
        /\ fed[k].parsed /\ fed[k].frame.payload # ""
        /\ \/ fed[k].ok /\ fed[k].part = "None"
           \/ fed[k].err \in {"MaximumStreamSizeExceeded",
                              "ParseError.MaximumStreamSizeExceeded"}}

Refused4Size(k) == ~fed[k].ok

\* The payload accumulated for the stream of frame k before frame k.
StreamTotal(k) ==
    Cardinality({j \in 1..(k - 1) : /\ j \in InsertCalls
                                    /\ fed[j].ok
                                    /\ fed[j].frame.type = fed[k].frame.type})

\* C21: while frames of one stream are accumulated, the defragmenter fails
\* with MaximumStreamSizeExceeded exactly at the first frame whose payload
\* would make the accumulated total exceed the cap; every earlier frame is
\* accepted and a total equal to the cap is accepted.
C21_FailsExactlyAboveCap ==
    \A k \in InsertCalls :
        Refused4Size(k) <=>
            StreamTotal(k) + PayloadLen(fed[k].frame.payload) > MaxStreamPayload

\* C22: the cap applies to each stream separately: a later stream of the
\* same request (Stdin, Data) whose own total payload is within the cap is
\* never rejected because of bytes counted for an earlier stream.
C22_CapPerStream ==
    \A k \in InsertCalls :
        endpoint = "Server" /\ fed[k].frame.type \in {"Stdin", "Data"} =>
            (StreamTotal(k) + PayloadLen(fed[k].frame.payload) <= MaxStreamPayload
                => fed[k].ok)


\* ------------------------------------------------------------ reused ids
\* C29: an Abort command issued on behalf of one request never removes the
\* slot of, nor causes an AbortRequest for, a different request, in
\* particular not a later request that was given the same id.
C29_AbortHitsOwnSlot ==
    /\ \A k \in 1..Len(aborting) : aborting[k].slot = aborting[k].req
    /\ \A i \in Ids : \A k \in 1..Len(wire[i]) :
          wire[i][k].type = "AbortRequest" => wire[i][k].slot = wire[i][k].req


\* The BeginRequest of request r has reached the peer.
BeginFlushed(r) ==
    \E i \in Ids : \E k \in 1..flushed[i] :
        wire[i][k].type = "BeginRequest" /\ wire[i][k].req = r

\* C30: frames the server sends for a request that was aborted or whose slot
\* was dropped are discarded by the dispatcher and never delivered to a later
\* request that reuses the id: a request is handed frames only once the peer
\* can have answered it, its BeginRequest having been flushed.
C30_NoStaleFrameDelivered ==
    \A r \in Reqs : got[r] # <<>> => BeginFlushed(r)


\* ---------------------------------------------------------------- C23
Ceil(n, d) == (n + d - 1) \div d

NonEmpty(rs) == SelectSeq(rs, LAMBDA r : r.len > 0)

\* The stream's sender has sent the record that ends it.
Drained(s) == s < CurrentStream \/ ~chunker.some

Whole(s) == IF streams[s].n = 0 THEN <<>> ELSE <<[s |-> s, off |-> 0, len |-> streams[s].n]>>

\* C23: a byte slice of n bytes chunked under the limit of 65535 gives
\* non-empty chunks of at most 65535 bytes each; once the chunker reports
\* itself drained there are exactly ceil(n / 65535) of them, their
\* concatenation in order is the n bytes, and one empty record follows them.
C23_ChunksOfByteSlice ==
    \A s \in 1..Len(streams) :
        streams[s].by = "chunker" =>
            LET rs == RecordsOf(s)
                ne == NonEmpty(rs)
            IN /\ \A k \in 1..Len(ne) : ne[k].len <= EncodeLimit
               /\ \A k \in 1..Len(rs) : rs[k].len = 0 => k = Len(rs) /\ Drained(s)
               /\ Drained(s) =>
                    /\ Len(ne) = Ceil(streams[s].n, EncodeLimit)
                    /\ Concat(ne) = Whole(s)
                    /\ Len(rs) = Len(ne) + 1
                    /\ rs[Len(rs)].len = 0

\* 100000 bytes were sent as 65535 + 34465 and the empty record.
C23_Witness ==
    \E s \in 1..Len(streams) :
        /\ streams[s].by = "chunker" /\ streams[s].n = 100000
        /\ Drained(s)
        /\ [k \in 1..Len(RecordsOf(s)) |-> RecordsOf(s)[k].len] = <<65535, 34465, 0>>


\* ---------------------------------------------------------------- C24
\* The receiver has read the record that ends stream s, or has refused one of
\* its records.
Settled(s) == \E k \in 1..Len(results) : results[k].s = s

ResultOf(s) == (CHOOSE k \in 1..Len(results) : results[k].s = s)

\* C24: a stream of 1..MaxTotalPayload bytes, cut into non-empty frames in
\* any way, comes out of the Defrag at the end of the stream as the same bytes.
C24_DefragReturnsStream ==
    \A s \in 1..Len(streams) :
        streams[s].n \in 1..MaxTotalPayload /\ Settled(s) =>
            /\ results[ResultOf(s)].value = "Some"
            /\ results[ResultOf(s)].bytes = Whole(s)


\* ---------------------------------------------------------------- C25
\* The frame that encoding record k and decoding its bytes should give.
FrameOf(k) ==
    [NoOut EXCEPT !.kind = "Frame", !.id = encoded[k].id,
                  !.record_type = encoded[k].record_type,
                  !.payload = IF encoded[k].len = 0 THEN <<>>
                              ELSE <<Body(k, 0, encoded[k].len)>>]

\* C25: whatever the padding policy, the k-th thing the decoder of
\* protocol/transport returns for a sequence of encoded records is a frame
\* with the id, the record type and the body of the k-th record.
C25_DecodeInvertsEncode ==
    codec.which = "protocol" =>
        \A k \in 1..Len(frames) : ~encoded[k].raw => frames[k] = FrameOf(k)


\* ---------------------------------------------------------------- C26
BadVersion(k) == encoded[k].version # FCGI_VERSION_1

BadReserved(k) == encoded[k].reserved # 0

IsErr(k, e) == frames[k].kind = "Err" /\ frames[k].err = e

\* C26 as stated: a header whose version byte is not 1 is answered with
\* IncompatibleVersion and one whose reserved byte is not 0 with
\* CorruptedHeader.
C26_ErrorPerBadByte ==
    \A k \in 1..Len(frames) :
        /\ BadVersion(k) => IsErr(k, "IncompatibleVersion")
        /\ BadReserved(k) => IsErr(k, "CorruptedHeader")

\* C26 amended: a header with only the version byte wrong is answered with
\* IncompatibleVersion, one with only the reserved byte wrong with
\* CorruptedHeader, and one with both wrong with CorruptedHeader by
\* Header::decode and with IncompatibleVersion by decode_header of
\* codec/codec.rs; no frame comes from such a header nor after it.
C26_ErrorOfFirstCheck ==
    \A k \in 1..Len(frames) :
        /\ BadVersion(k) /\ ~BadReserved(k) => IsErr(k, "IncompatibleVersion")
        /\ ~BadVersion(k) /\ BadReserved(k) => IsErr(k, "CorruptedHeader")
        /\ BadVersion(k) /\ BadReserved(k) =>
                IF codec.which = "protocol" THEN IsErr(k, "CorruptedHeader")
                ELSE IsErr(k, "IncompatibleVersion")
        /\ BadVersion(k) \/ BadReserved(k) => Len(frames) = k

\* Header::decode has answered a header with both bytes wrong.
C26_Witness ==
    \E k \in 1..Len(frames) :
        /\ codec.which = "protocol"
        /\ BadVersion(k) /\ BadReserved(k)
        /\ IsErr(k, "CorruptedHeader")


\* ---------------------------------------------------------------- C28
\* The length of a Param is encoded in one byte with the top bit clear when
\* it is at most 127 and in four bytes with the top bit set otherwise, and
\* decode_length reads it back and nothing more.
LengthInverts(p) ==
    LET n == BufLen(p.bytes)
        e == EncodeLength(p)
    IN /\ n <= 127 => e.len = 1 /\ e.bytes[1] < 128
       /\ n > 127 => e.len = 4 /\ e.bytes[1] >= 128
       /\ DecodeLength(<<e>>) = [some |-> TRUE, len |-> n, rest |-> <<>>]

\* The k-th call of decode returned a pair equal to the k-th pair encoded.
RoundTrips(k) ==
    /\ decoded[k].ok
    /\ decoded[k].pair.name = nvps[k].name
    /\ decoded[k].pair.value = nvps[k].value

\* The bytes of the pairs from the j-th on.
RECURSIVE BytesFrom(_)
BytesFrom(j) == IF j > Len(nvps) THEN <<>> ELSE PairBytes(nvps[j]) \o BytesFrom(j + 1)

NonEmptyName(k) == nvps[k].name.bytes # <<>>

\* The pair is one NameValuePair::new or new_empty would make: the name is
\* not empty, the value is absent or not empty, and each Param has the
\* variant Param::new gives its length.
AsConstructed(k) ==
    /\ NonEmptyName(k)
    /\ nvps[k].name.tag = ParamNew(nvps[k].name.bytes).tag
    /\ nvps[k].value.tag # "None" =>
            /\ nvps[k].value.bytes # <<>>
            /\ nvps[k].value.tag = ParamNew(nvps[k].value.bytes).tag

\* C28 as stated: every pair with a non-empty name is decoded from its bytes
\* as an equal pair, the decoder taking exactly its bytes, and the lengths
\* are encoded in 1 or 4 bytes and decoded back.
C28_PairRoundTrip ==
    \A k \in 1..Len(nvps) :
        (\A j \in 1..k : NonEmptyName(j)) =>
            /\ LengthInverts(nvps[k].name)
            /\ nvps[k].value.tag # "None" => LengthInverts(nvps[k].value)
            /\ k <= Len(decoded) => RoundTrips(k)
            /\ k = Len(decoded) => nvbuf = Join(BytesFrom(k + 1))

\* C28 amended: the same for the pairs the constructors make.
C28_ConstructedPairRoundTrip ==
    \A k \in 1..Len(nvps) :
        (\A j \in 1..k : AsConstructed(j)) =>
            /\ LengthInverts(nvps[k].name)
            /\ nvps[k].value.tag # "None" => LengthInverts(nvps[k].value)
            /\ k <= Len(decoded) => RoundTrips(k)
            /\ k = Len(decoded) => nvbuf = Join(BytesFrom(k + 1))

\* Two pairs were decoded from one buffer: a name of 128 bytes with a value
\* of 127, then a name of 16777216 bytes with no value.
C28_Witness ==
    /\ Len(decoded) = 2 /\ RoundTrips(1) /\ RoundTrips(2) /\ nvbuf = <<>>
    /\ nvps[1].by = "new" /\ nvps[2].by = "new_empty"
    /\ BufLen(nvps[1].name.bytes) = 128 /\ BufLen(nvps[1].value.bytes) = 127
    /\ BufLen(nvps[2].name.bytes) = 16777216


\* ---------------------------------------------------------------- C27
\* Params are sent, and no stream is longer than the cap of a Defrag.
WellFormed(req) ==
    /\ req.role # "None"
    /\ req.params # <<>>
    /\ Len(req.params) <= MaxStreamPayload
    /\ Len(req.stdin) <= MaxStreamPayload
    /\ Len(req.data) <= MaxStreamPayload

\* C27: once Request::recv has returned for the frames of a well-formed
\* request, it has returned that request (role, params, stdin, data); once
\* Response::recv has returned for the frames of the server's response, it
\* has returned that response (stdout, stderr, app_status); and a Filter
\* request answered by echoing its data has that data as Response.stdout.
C27_RequestAndResponseArrive ==
    /\ WellFormed(sentRequest) /\ received.res # "none" =>
            received.res = "Ok" /\ received.got = sentRequest
    /\ sentResponse.some /\ response.res # "none" =>
            response.res = "Ok" /\ response.got = sentResponse
    /\ /\ WellFormed(sentRequest) /\ sentRequest.role = "Filter"
       /\ sentResponse.some /\ sentResponse = EchoDataOverStdout
       /\ response.res # "none"
       => response.res = "Ok" /\ response.got.stdout = sentRequest.data


\* ---------------------------------------------------------------- C31
\* C31: every application frame the dispatcher writes under an id was
\* enqueued by the request registered under that id when it is written;
\* records left in the queue by a request that was aborted or removed are
\* never written under an id since given to another request.
C31_WrittenByRegisteredRequest ==
    \A i \in Ids : \A k \in 1..Len(wire[i]) :
        wire[i][k].type # "AbortRequest" => wire[i][k].req = wire[i][k].slot


\* ---------------------------------------------------------------- C32
\* C32: an AbortRequest frame is written for an id only if the BeginRequest
\* frame of the same request was written before it.
C32_AbortAfterBegin ==
    \A i \in Ids : \A k \in 1..Len(wire[i]) :
        wire[i][k].type = "AbortRequest" =>
            \E j \in 1..(k - 1) : /\ wire[i][j].type = "BeginRequest"
                                  /\ wire[i][j].req = wire[i][k].req


\* ---------------------------------------------------------------- C33
\* C33: whenever a poll of a pending request's future has returned Pending,
\* a later wake-up is certain: the task has woken itself or a waker is
\* registered on a channel it waits for, so that frames in its inbound
\* channel, or arriving in it later, are processed; also after a poll that
\* consumed yield_at frames without reaching EndRequest.
C33_PendingIsWoken ==
    \A r \in Reqs : st[r] = "pending" => wake[r] \/ waiting[r] # {}


\* ---------------------------------------------------------------- C34
\* C34: every frame the dispatcher hands to the transport sink, an
\* AbortRequest written after the last live slot was removed included, is
\* flushed to the peer without another request having to be registered: once
\* the client has come to rest, nothing written is left unflushed.
C34_WrittenIsFlushed ==
    Quiescent => \A i \in Ids : flushed[i] = Len(wire[i])


\* ---------------------------------------------------------------- C35
\* An event the table of the client parser does not name: a stdout or stderr
\* frame after that stream has ended, an EndRequest while stdout has not
\* ended or while stderr is started and not ended, any frame after Finished.
OutsideTable(p, tr) ==
    \/ p.inner = "Finished"
    \/ tr.t \in {"ParseStdout", "EndOfStdout"} /\ p.out = "Ended"
    \/ tr.t \in {"ParseStderr", "EndOfStderr"} /\ p.err = "Ended"
    \/ tr.t = "ParseEndRequest" /\ (p.out # "Ended" \/ p.err = "Started")

\* The client parser has just been given a frame that makes a transition.
ClientParses ==
    /\ endpoint = "Client"
    /\ Len(fed') = Len(fed) + 1
    /\ fed'[Len(fed')].parsed
    /\ TransitionParse(fed'[Len(fed')].frame).ok

\* C35: any event outside the client parser's transition table yields
\* InvalidState, emits no part and leaves the parser state unchanged, in the
\* parser of protocol/parser and of conn/state.rs and in that of
\* conn/parser.rs alike.
C35_OutsideTableIsInvalidState ==
    [][ClientParses =>
          LET last == fed'[Len(fed')]
              tr == TransitionParse(last.frame)
              old == ResponseParserParseFrame(cstate, tr)
          IN OutsideTable(cstate, tr) =>
                /\ ~last.ok /\ last.err = "ParseError.InvalidState"
                /\ last.part = "None"
                /\ cstate' = cstate
                /\ ~old.ok /\ old.err = "InvalidState" /\ old.parser = cstate]_vars

\* An EndRequest was refused with InvalidState while stderr was started and
\* not ended, stdout having ended.
C35_Witness ==
    /\ endpoint = "Client" /\ fed # <<>>
    /\ fed[Len(fed)].frame = Frame(1, "EndRequest", "RequestComplete")
    /\ fed[Len(fed)].err = "ParseError.InvalidState"
    /\ cstate.inner = "Std" /\ cstate.out = "Ended" /\ cstate.err = "Started"


\* ---------------------------------------------------------------- C36
\* The calls of the server parser on the empty frame of the stream it is
\* reading, with nothing of that stream buffered.
EmptyStreamCalls ==
    {k \in 1..Len(fed) :
        /\ endpoint = "Server" /\ fed[k].parsed
        /\ fed[k].frame.payload = ""
        /\ fed[k].from \in StreamStates /\ fed[k].frame.type = fed[k].from
        /\ \A j \in 1..(k - 1) :
              ~(/\ fed[j].parsed /\ fed[j].ok
                /\ fed[j].frame.type = fed[k].frame.type
                /\ fed[j].frame.payload # "")}

\* C36: in the server parser an empty Params frame with nothing buffered is
\* an error, an empty Data frame with nothing buffered is an error (the
\* role being Filter), and an empty Stdin frame with nothing buffered is
\* accepted and emits a Stdin part.
C36_EmptyStreams ==
    \A k \in EmptyStreamCalls :
        CASE fed[k].from = "Params" ->
                /\ ~fed[k].ok /\ fed[k].err = "ParamsMustBeLargerThanZero"
                /\ fed[k].part = "None"
          [] fed[k].from = "Data" ->
                /\ ~fed[k].ok /\ fed[k].err = "DataIsRequiredForFilterApplications"
                /\ fed[k].part = "None"
                /\ sstate.role = "Filter"
          [] OTHER -> fed[k].ok /\ fed[k].part = "Stdin"

\* A Filter request whose three streams all ended with nothing buffered.
C36_Witness ==
    /\ {fed[k].from : k \in EmptyStreamCalls} = StreamStates
    /\ sstate.role = "Filter"


\* ---------------------------------------------------------------- C37
\* C37: a call of the server parser that returns an error does not advance
\* the parser state; hence the parser is never Finished without having
\* emitted a Params part nor, for role Filter, without having emitted a Data
\* part.
C37_ErrorKeepsState ==
    endpoint = "Server" =>
        /\ \A k \in 1..Len(fed) : fed[k].parsed /\ ~fed[k].ok => fed[k].to = fed[k].from
        /\ sstate.inner = "Finished" =>
              /\ Parts("Params") >= 1
              /\ sstate.role = "Filter" => Parts("Data") >= 1


\* ---------------------------------------------------------------- C38
\* C38: decoding a header classifies every record-type byte without failing:
\* 1 to 8 as application record types and every other value as a management
\* record type, 9, 10 and 11 among them. The decoder of protocol/transport
\* never panics on a header, and the frame it returns carries the type byte
\* of the record.
C38_EveryTypeByteClassified ==
    codec.which = "protocol" =>
        /\ \A k \in 1..Len(frames) : frames[k].kind # "Panic"
        /\ \A k \in 1..Len(frames) :
              frames[k].kind = "Frame" => frames[k].record_type = encoded[k].record_type


\* The bytes of whole pairs, one after the other.
RECURSIVE PairsBytes(_)
PairsBytes(pairs) ==
    IF pairs = <<>> THEN <<>> ELSE PairBytes(Head(pairs)) \o PairsBytes(Tail(pairs))

\* C39: every call of the name-value-pair chunker writes the bytes of some
\* of the first pairs it was given, whole and in their order, and no more
\* bytes than the buffer had left, whether the pairs have a value or not;
\* and when the first pair alone needs more bytes than the buffer has left,
\* the call returns the error.
C39_ChunkIsWholePairsThatFit ==
    \A k \in 1..Len(chunks) :
        LET c == chunks[k] IN
        /\ \E m \in 0..Len(c.from) : c.bytes = PairsBytes(SubSeq(c.from, 1, m))
        /\ BufLen(c.bytes) <= c.cap
        /\ c.result # "Panic"
        /\ c.from # <<>> /\ BufLen(PairBytes(c.from[1])) > c.cap
                => c.result = "InsufficientSizeInBuffer"


\* ---------------------------------------------------------------- C40
\* The bytes written for the k-th record, and all the bytes written.
WrittenBy(k) ==
    LET e == encoded[k]
        content_length == e.len % 65536
        padding_length == IntoU8(e.padding, content_length)
    IN IF e.raw THEN <<Lit(<<e.version, 6, 0, 1, 0, 0, 0, e.reserved>>)>>
       ELSE <<HeaderEncode(e, content_length, padding_length)>>
            \o (IF e.len = 0 THEN <<>> ELSE <<Body(k, 0, e.len)>>)
            \o (IF padding_length = 0 THEN <<>> ELSE <<Zeros(padding_length)>>)

RECURSIVE Written(_)
Written(k) == IF k = 0 THEN <<>> ELSE Written(k - 1) \o WrittenBy(k)

\* Framed with the bytes all in its read buffer: it calls Decoder::decode
\* until the call returns no frame.
RECURSIVE DecodeAll(_, _)
DecodeAll(c, buf) ==
    LET d == Decode(c, buf) IN
    IF d.out.kind = "None" THEN <<>>
    ELSE IF d.out.kind = "Frame" THEN <<d.out>> \o DecodeAll(d.codec, d.src)
    ELSE <<d.out>>

\* What the decoder has returned, followed by what it returns when the bytes
\* not yet read come in one read.
FramesInAll ==
    IF frames # <<>> /\ frames[Len(frames)].kind # "Frame" THEN frames
    ELSE frames \o DecodeAll(codec, Join(src \o dst))

\* C40: however the bytes written were split across the reads so far, within
\* a header, a body or padding, the frames returned, with those the rest of
\* the bytes give, are the frames a new decoder returns for the same bytes
\* in one read, in the same order.
C40_FramesIndependentOfReads ==
    codec.which # "none" =>
        FramesInAll = DecodeAll(NewCodec(codec.which), Join(Written(Len(encoded))))

\* Two frames were returned, the second while only a part of its padding
\* had been read.
C40_Witness ==
    /\ Len(frames) = 2 /\ frames[2].kind = "Frame"
    /\ codec.state = "Padding"
    /\ BufLen(src) \in 1..(codec.skip - 1)
    /\ dst # <<>>

====
